---- MODULE Spec2Model ----
(***************************************************************************)
(* Model of the Winter request framework: configuration resolution, the   *)
(* send() lifecycle of one request instance, the default hooks and the    *)
(* partial injection into the DOM.                                         *)
(*                                                                         *)
(* Three generations of the class live side by side in the sources:       *)
(*   "base"    WinterRequestFrameworkBase        (src/request/base.ts)     *)
(*   "request" Request, element bound            (src/request.ts,          *)
(*             hooks of src/request/defaults.ts, utils/inject-partials.ts) *)
(*   "extras"  WinterRequestExtras, deepmerge    (unnamed/part_004,        *)
(*             hooks of unnamed/part_003, guarded injectPartials)          *)
(* JavaScript values are encoded as strings so that values of different   *)
(* JavaScript types can be compared.                                       *)
(***************************************************************************)
EXTENDS Integers, Sequences, FiniteSets, TLC

\* ------------------------------------------------------------------------
\* JavaScript values
\* ------------------------------------------------------------------------
Undef == "undefined"
Null  == "null"
True  == "bool:true"
False == "bool:false"

\* JavaScript truthiness of an encoded value
Truthy(v) == v \notin {Undef, Null, False, ""}

Variants == {"base", "request", "extras"}

\* ------------------------------------------------------------------------
\* Hook implementations. A hook slot holds the name of the source
\* definition bound to it.
\* ------------------------------------------------------------------------
HookSlots ==
    {"onSetup", "onSuccess", "onError", "onComplete", "onErrorMessage",
     "onConfirmMessage", "onValidationMessage", "onFlashMessage",
     "onUpdateResponse", "onRedirectResponse", "onBeforeUpdate", "onAssets"}

\* the hooks that request/defaults.ts (and part_003) redefine
ExtendedSlots ==
    {"onSetup", "onSuccess", "onError", "onComplete", "onErrorMessage",
     "onConfirmMessage", "onValidationMessage", "onRedirectResponse"}

\* base.ts defaults.handlers: every slot has the basic implementation
BaseHandlers == [s \in HookSlots |-> "base"]

\* request/defaults.ts: the extended hooks over the basic ones
RequestHandlers ==
    [s \in HookSlots |-> IF s \in ExtendedSlots THEN "request" ELSE "base"]

\* part_003: the extended hooks of the extras generation; it also
\* redefines onUpdateResponse
ExtrasHandlers ==
    [s \in HookSlots |->
        IF s \in ExtendedSlots \cup {"onUpdateResponse"} THEN "extras" ELSE "base"]

\* ------------------------------------------------------------------------
\* Configuration layers: functions from option keys to values
\* ------------------------------------------------------------------------

\* stringToBoolean: "true" in any letter case, or anything == true ("1")
StringToBoolean(s) ==
    IF s \in {"true", "TRUE", "True"} \/ s \in {True, "1"} THEN True ELSE False

\* paramToObj: the attribute text wrapped in braces and parsed; the model
\* carries the attribute as the parsed sequence of <<name, value>> pairs
\* and an absent attribute parses as the empty object
ParamToObj(v) == IF v = Undef THEN << >> ELSE v

\* Object.assign(target, source): every own key of source, also one
\* holding undefined, overwrites the key of target
ObjectAssign(target, source) ==
    [k \in (DOMAIN target) \cup (DOMAIN source) |->
        IF k \in DOMAIN source THEN source[k] ELSE target[k]]

\* Objects (the update map, the data map, a response body) are sequences
\* of <<key, value>> pairs in key order; a key that is there holds a
\* non-empty value
\* merge of two key/value sequences (the update map, the data map)
RECURSIVE MapSet(_, _, _)
MapSet(m, k, v) ==
    IF m = << >> THEN << <<k, v>> >>
    ELSE IF Head(m)[1] = k THEN << <<k, v>> >> \o Tail(m)
    ELSE << Head(m) >> \o MapSet(Tail(m), k, v)

RECURSIVE MapMerge(_, _)
MapMerge(x, y) ==
    IF y = << >> THEN x
    ELSE MapMerge(MapSet(x, Head(y)[1], Head(y)[2]), Tail(y))

MapKeys(m) == [i \in 1..Len(m) |-> m[i][1]]
MapHas(m, k) == \E i \in 1..Len(m) : m[i][1] = k
MapGet(m, k) ==
    IF MapHas(m, k)
    THEN m[CHOOSE i \in 1..Len(m) : m[i][1] = k][2]
    ELSE Undef

\* the option keys whose values are plain objects
ObjectKeys == {"update", "data"}

\* deepmerge(x, y): keys of y overwrite keys of x (also with undefined),
\* plain objects present on both sides merge key-wise
DeepMerge(x, y) ==
    [k \in (DOMAIN x) \cup (DOMAIN y) |->
        IF k \notin DOMAIN y THEN x[k]
        ELSE IF k \notin DOMAIN x THEN y[k]
        ELSE IF k \in ObjectKeys THEN MapMerge(x[k], y[k])
        ELSE IF k = "handlers"
             THEN [s \in HookSlots |->
                     IF y[k][s] # "absent" THEN y[k][s] ELSE x[k][s]]
        ELSE y[k]]

\* an option of a configuration; a key that is not there reads undefined
Opt(opts, k) == IF k \in DOMAIN opts THEN opts[k] ELSE Undef

\* base.ts defaults (the keys the model follows)
Defaults ==
    [confirm |-> False, redirect |-> Null, flash |-> False,
     browserValidate |-> False, loading |-> Null,
     update |-> << >>, data |-> << >>, handlers |-> BaseHandlers]

\* the defaults of the extras generation: the basic ones of
\* request/types.ts, and the hooks of part_003 over them
FlatDefaults ==
    [confirm |-> False, redirect |-> Null, flash |-> False,
     update |-> << >>, data |-> << >>, handlers |-> BaseHandlers]

ExtrasDefaults == [handlers |-> ExtrasHandlers]

\* the layer derived from the data attributes of the triggering element
ElementLayer(dataset) ==
    [confirm |-> dataset.requestConfirm,
     redirect |-> dataset.requestRedirect,
     loading |-> dataset.requestLoading,
     flash |-> StringToBoolean(dataset.requestFlash),
     form |-> dataset.requestForm,
     update |-> ParamToObj(dataset.requestUpdate),
     data |-> ParamToObj(dataset.requestData),
     browserValidate |-> StringToBoolean(dataset.requestBrowserValidate)]

\* ------------------------------------------------------------------------
\* The page: what the DOM queries of the constructor and the hooks find
\* ------------------------------------------------------------------------
FormSelector    == "#form"
LoadingSelector == "#loading"

\* document.querySelector for the form and the loading indicator
QueryForm(pg, sel)    == IF sel = FormSelector /\ pg.formInDom THEN "form" ELSE Null
QueryLoading(pg, sel) == IF sel = LoadingSelector /\ pg.loadingInDom THEN "loading" ELSE Null

\* element.closest('form')
ClosestForm(pg) == IF pg.closestForm THEN "form" ELSE Null

\* getElement: a selector string is queried, anything else is returned as is
GetElementForm(pg, v) ==
    IF v \in {Undef, Null, "form"} THEN v ELSE QueryForm(pg, v)
GetElementLoading(pg, v) ==
    IF v \in {Undef, Null, "loading"} THEN v ELSE QueryLoading(pg, v)

\* ------------------------------------------------------------------------
\* Constructors. The result says whether construction threw, and gives
\* the effective options and the bound element, form and loading element.
\* ------------------------------------------------------------------------
HandlerNames == {Undef, "onSave"}

\* the handler names the model follows, letter by letter
HandlerSpellings ==
    { <<"onSave",      <<"o", "n", "S", "a", "v", "e">> >>,
      <<"cmp::onSave", <<"c", "m", "p", ":", ":", "o", "n", "S", "a", "v", "e">> >>,
      <<"oSave",       <<"o", "S", "a", "v", "e">> >>,
      <<"o",           <<"o">> >>,
      <<"save",        <<"s", "a", "v", "e">> >>,
      <<"cmp::save",   <<"c", "m", "p", ":", ":", "s", "a", "v", "e">> >>,
      <<"cmp:onSave",  <<"c", "m", "p", ":", "o", "n", "S", "a", "v", "e">> >>,
      <<"::onSave",    <<":", ":", "o", "n", "S", "a", "v", "e">> >>,
      <<"",            << >> >> }

Chars(h) == (CHOOSE p \in HandlerSpellings : p[1] = h)[2]

\* \w
IsWordChar(ch) == ch # ":"

\* on* at the start of w: an o, then as many n as there are (none will do);
\* the pattern is not anchored at its end
MatchesOnStar(w) == Len(w) >= 1 /\ w[1] = "o"

\* handler.match(/^(?:\w+:{2})?on*/)
MatchesHandlerPattern(w) ==
    \/ MatchesOnStar(w)
    \/ \E k \in 1..(Len(w) - 2) :
          /\ \A j \in 1..k : IsWordChar(w[j])
          /\ w[k + 1] = ":" /\ w[k + 2] = ":"
          /\ MatchesOnStar(SubSeq(w, k + 3, Len(w)))

\* validateHandler: throws for an absent name and for a name the pattern
\* does not match
ValidateHandler(h) == h # Undef /\ MatchesHandlerPattern(Chars(h))

Failed == [ok |-> FALSE]

\* WinterRequestFrameworkBase.constructor: { ...defaults, ...options }
ConstructBase(handler, caller) ==
    IF ~ValidateHandler(handler) THEN Failed
    ELSE [ok |-> TRUE, handler |-> handler,
          options |-> ObjectAssign(Defaults, caller),
          element |-> Null, form |-> Undef, loading |-> Undef]

\* the form option of Request after the constructor resolved it
RequestFormOption(pg, opts) ==
    IF opts.form # Null /\ opts.form # "form"
    THEN IF opts.form # Undef THEN QueryForm(pg, opts.form) ELSE ClosestForm(pg)
    ELSE opts.form

\* Request.constructor: super(handler), then
\* Object.assign(this.options, elementLayer, options || {})
ConstructRequest(pg, hasElement, dataset, handlerArg, caller) ==
    LET handler == IF handlerArg = Undef /\ hasElement THEN dataset.request
                   ELSE handlerArg
    IN  IF ~ValidateHandler(handler) THEN Failed
        ELSE IF ~hasElement THEN Failed      \* this.element.dataset of null
        ELSE LET assigned == ObjectAssign(
                                ObjectAssign(Defaults,
                                             ElementLayer(dataset)), caller)
                 formOpt  == RequestFormOption(pg, assigned)
                 opts     == [assigned EXCEPT !.form = formOpt]
             IN  [ok |-> TRUE, handler |-> handler, options |-> opts,
                  element |-> "element",
                  form |-> GetElementForm(pg, formOpt),
                  loading |-> GetElementLoading(pg, opts.loading)]

\* WinterRequestExtras.constructor: merge(elementLayer, options), then
\* super(handler, merge(defaults, options)), which merges the basic
\* defaults below them
ConstructExtras(pg, hasElement, dataset, handlerArg, caller) ==
    LET handler == IF handlerArg = Undef /\ hasElement THEN dataset.request
                   ELSE handlerArg
        layered == IF hasElement THEN DeepMerge(ElementLayer(dataset), caller)
                   ELSE caller
        opts    == DeepMerge(FlatDefaults, DeepMerge(ExtrasDefaults, layered))
    IN  IF ~ValidateHandler(handler) THEN Failed
        ELSE [ok |-> TRUE, handler |-> handler, options |-> opts,
              element |-> IF hasElement THEN "element" ELSE Null,
              form |-> IF Truthy(Opt(opts, "form"))
                       THEN GetElementForm(pg, opts.form)
                       ELSE IF hasElement THEN ClosestForm(pg) ELSE Undef,
              loading |-> GetElementLoading(pg, Opt(opts, "loading"))]

Construct(v, pg, hasElement, dataset, handlerArg, caller) ==
    CASE v = "base"    -> ConstructBase(handlerArg, caller)
      [] v = "request" -> ConstructRequest(pg, hasElement, dataset, handlerArg, caller)
      [] v = "extras"  -> ConstructExtras(pg, hasElement, dataset, handlerArg, caller)

\* ------------------------------------------------------------------------
\* Events. Every notification is built by events.ts as
\* new CustomEvent(name, { bubbles: true, detail }): the cancelable flag is
\* never set, so preventDefault() of a listener has no effect and
\* dispatchEvent returns true.
\* ------------------------------------------------------------------------
Cancelable(name) == FALSE

\* EventTarget.dispatchEvent: false only when the event is cancelable and
\* a listener called preventDefault()
DispatchEvent(name, prevented) == ~(Cancelable(name) /\ prevented)

\* the events whose result the code looks at; a listener may try to
\* prevent any of them
PreventableEvents ==
    {"wn.beforeRequest", "ajaxConfirmMessage", "ajaxBeforeUpdate", "ajaxError",
     "ajaxErrorMessage", "ajaxInvalidField", "ajaxBeforeReplace"}

\* ------------------------------------------------------------------------
\* Execution context threaded through the hooks: the notifications and
\* hook calls so far, the content of the target elements, the focused
\* control, whether an exception is propagating, and the listeners' choice
\* of events to prevent
\* ------------------------------------------------------------------------
Ev(name, target)  == <<"event", name, target>>
Call(name, arg)   == <<"hook", name, arg>>
Returned(name, v) == <<"end", name, v>>
End(name)         == Returned(name, "")
Transport(config) == <<"transport", "request", config>>
\* element.insertAdjacentHTML(...) or element.innerHTML = ...
Changed(element)  == <<"dom", "change", element>>
Threw(name)       == <<"throw", name, "">>
Unhandled(name)   == <<"unhandled", name, "">>
Native(name, arg) == <<"native", name, arg>>
Pending(name)     == <<"pending", name, "">>

Logged(c, e) == [c EXCEPT !.log = Append(@, e)]
Throw(c)     == [c EXCEPT !.thrown = TRUE]

\* ------------------------------------------------------------------------
\* The DOM targets of partial injection. A selector is the sequence of its
\* tokens: <<"@", "#a">> is "@#a". The content of an element is the
\* sequence of the HTML fragments put into it.
\* ------------------------------------------------------------------------
Elems == {"#a", "#b"}

\* document.querySelector(selector)
QuerySelector(present, selector) ==
    IF Len(selector) = 1 /\ selector[1] \in present THEN selector[1] ELSE Null

\* an injection whose replace branch adds to the content (innerHTML +=)
InjectOneAdding(c, present, partials, data, i) ==
    LET partial  == data[i][1]
        selector == IF MapHas(partials, partial)
                    THEN MapGet(partials, partial) ELSE partial
        prefixed == Head(selector) \in {"^", "@"}
        element  == QuerySelector(present, IF prefixed THEN Tail(selector) ELSE selector)
    IN  IF element = Null THEN Throw(c)
        ELSE IF Head(selector) = "^"
             THEN Logged(Logged([c EXCEPT !.dom[element] = << data[i][2] >> \o @], Changed(element)),
                         Ev("ajaxUpdate", element))
        ELSE IF Head(selector) = "@"
             THEN Logged(Logged([c EXCEPT !.dom[element] = Append(@, data[i][2])], Changed(element)),
                         Ev("ajaxUpdate", element))
        ELSE Logged(Logged([Logged(c, Ev("ajaxBeforeReplace", element))
                                EXCEPT !.dom[element] = Append(@, data[i][2])], Changed(element)),
                    Ev("ajaxUpdate", element))

\* injectPartials of utils/inject-partials.ts (and utils/index.ts, utils.ts):
\* one key of the response data; the matched element is used unguarded
InjectOne(c, present, partials, data, i) ==
    LET partial  == data[i][1]
        selector == IF MapHas(partials, partial)
                    THEN MapGet(partials, partial) ELSE partial
        prefixed == Head(selector) \in {"^", "@"}
        element  == QuerySelector(present, IF prefixed THEN Tail(selector) ELSE selector)
    IN  IF element = Null THEN Throw(c)       \* TypeError: element is null
        ELSE IF Head(selector) = "^"
             THEN Logged(Logged([c EXCEPT !.dom[element] = << data[i][2] >> \o @], Changed(element)),
                         Ev("ajaxUpdate", element))
        ELSE IF Head(selector) = "@"
             THEN Logged(Logged([c EXCEPT !.dom[element] = Append(@, data[i][2])], Changed(element)),
                         Ev("ajaxUpdate", element))
        ELSE Logged(Logged([Logged(c, Ev("ajaxBeforeReplace", element))
                                EXCEPT !.dom[element] = << data[i][2] >>], Changed(element)),
                    Ev("ajaxUpdate", element))

\* an injection that takes every key for its own selector
InjectOneGuardedUnmapped(c, present, partials, data, i) ==
    LET partial  == data[i][1]
        selector == partial
        prefixed == Head(selector) \in {"^", "@"}
        element  == QuerySelector(present, IF prefixed THEN Tail(selector) ELSE selector)
        c1       == Logged(c, Ev("ajaxUpdate", element))
    IN  IF element = Null THEN c
        ELSE IF Head(selector) = "^"
             THEN Logged([c1 EXCEPT !.dom[element] = << data[i][2] >> \o @], Changed(element))
        ELSE IF Head(selector) = "@"
             THEN Logged([c1 EXCEPT !.dom[element] = Append(@, data[i][2])], Changed(element))
        ELSE Logged([Logged(c1, Ev("ajaxBeforeReplace", element))
                         EXCEPT !.dom[element] = << data[i][2] >>], Changed(element))

\* injectPartials of extras/utils/inject-partials.ts: the element is
\* checked, and ajaxUpdate is dispatched before the content changes
InjectOneGuarded(c, present, partials, data, i) ==
    LET partial  == data[i][1]
        selector == IF MapHas(partials, partial)
                    THEN MapGet(partials, partial) ELSE partial
        prefixed == Head(selector) \in {"^", "@"}
        element  == QuerySelector(present, IF prefixed THEN Tail(selector) ELSE selector)
        c1       == Logged(c, Ev("ajaxUpdate", element))
    IN  IF element = Null THEN c
        ELSE IF Head(selector) = "^"
             THEN Logged([c1 EXCEPT !.dom[element] = << data[i][2] >> \o @], Changed(element))
        ELSE IF Head(selector) = "@"
             THEN Logged([c1 EXCEPT !.dom[element] = Append(@, data[i][2])], Changed(element))
        ELSE Logged([Logged(c1, Ev("ajaxBeforeReplace", element))
                         EXCEPT !.dom[element] = << data[i][2] >>], Changed(element))

RECURSIVE InjectFrom(_, _, _, _, _, _)
InjectFrom(c, guarded, present, partials, data, i) ==
    IF i > Len(data) \/ c.thrown THEN c
    ELSE InjectFrom(IF guarded THEN InjectOneGuarded(c, present, partials, data, i)
                    ELSE InjectOne(c, present, partials, data, i),
                    guarded, present, partials, data, i + 1)

\* injectPartials(partials, data): every key of data in turn, then
\* ajaxUpdateComplete (and resize, in the unguarded version) on window
InjectPartials(c, guarded, present, partials, data) ==
    LET complete(x) ==
            IF x.thrown THEN x
            ELSE IF guarded THEN Logged(x, Ev("ajaxUpdateComplete", "window"))
            ELSE Logged(Logged(x, Ev("ajaxUpdateComplete", "window")),
                        Ev("resize", "window"))
    IN  complete(InjectFrom(c, guarded, present, partials, data, 1))

\* ------------------------------------------------------------------------
\* Response data: the sequence of <<key, value>> pairs of the body, in
\* the order of its keys. Keys are token sequences like selectors.
\* ------------------------------------------------------------------------
KResult   == <<"result">>
KRedirect == <<"X_WINTER_REDIRECT">>
KAssets   == <<"X_WINTER_ASSETS">>
KErrorMsg == <<"X_WINTER_ERROR_MESSAGE">>
KErrorFld == <<"X_WINTER_ERROR_FIELDS">>
KFlash    == <<"X_WINTER_FLASH_MESSAGES">>

\* ------------------------------------------------------------------------
\* Field names and form controls. A name is the sequence of its tokens:
\* words, ".", "[" and "]".
\* ------------------------------------------------------------------------
IsWord(t) == t \notin {".", "[", "]"}

\* fieldName.replace(/\.(\w+)/g, '[$1]')
RECURSIVE BracketName(_)
BracketName(n) ==
    IF n = << >> THEN << >>
    ELSE IF Head(n) = "." /\ Len(n) >= 2 /\ IsWord(n[2])
         THEN <<"[", n[2], "]">> \o BracketName(Tail(Tail(n)))
    ELSE << Head(n) >> \o BracketName(Tail(n))

EndsWith(name, suffix) ==
    /\ Len(name) >= Len(suffix)
    /\ SubSeq(name, Len(name) - Len(suffix) + 1, Len(name)) = suffix

\* [name="X"], [name="X[]"], [name$="[X]"], [name$="[X][]"]
NameMatches(name, arrayName) ==
    \/ name = arrayName
    \/ name = arrayName \o <<"[", "]">>
    \/ EndsWith(name, <<"[">> \o arrayName \o <<"]">>)
    \/ EndsWith(name, <<"[">> \o arrayName \o <<"]", "[", "]">>)

\* this.form.querySelectorAll(...)[0]: the index of the first matching
\* control of the form in document order, 0 when there is none
FirstMatch(controls, arrayName) ==
    IF \E i \in 1..Len(controls) : NameMatches(controls[i].name, arrayName)
    THEN CHOOSE i \in 1..Len(controls) :
            /\ NameMatches(controls[i].name, arrayName)
            /\ \A j \in 1..(i - 1) : ~NameMatches(controls[j].name, arrayName)
    ELSE 0

\* ------------------------------------------------------------------------
\* The hooks. self is the instance (variant, options, element, form,
\* loading), env what the page and the user answer: the events listeners
\* try to prevent, the answer to the native confirm, the elements present
\* and the controls of the form.
\* ------------------------------------------------------------------------
Impl(self, slot) == self.options.handlers[slot]

\* this.form || this.element
FormOrElement(self) ==
    IF Truthy(self.form) THEN self.form ELSE self.element

\* a hook supplied by the caller: it is called and does nothing
UserHook(c, slot, arg) == Logged(Logged(c, Call(slot, arg)), End(slot))

\* a hook supplied by the caller that awaits something of its own: the
\* call returns a promise that is still pending
SlowHook(c, slot, arg) == Logged(Logged(c, Call(slot, arg)), Pending(slot))

\* calling a hook that is not in the hook set: TypeError
AbsentHook(c) == Throw(c)

\* base.ts onAssets, onFlashMessage, onBeforeUpdate, onValidationMessage,
\* onSetup, onComplete: async () => {}
NoopHook(c, slot, arg) == Logged(Logged(c, Call(slot, arg)), End(slot))

OnAssets(c, self, assets) ==
    IF Impl(self, "onAssets") = "absent" THEN AbsentHook(c)
    ELSE NoopHook(c, "onAssets", assets)

OnFlashMessage(c, self, message, type) ==
    IF Impl(self, "onFlashMessage") = "absent" THEN AbsentHook(c)
    ELSE NoopHook(c, "onFlashMessage", <<message, type>>)

\* the result of onBeforeUpdate is compared with false; the default
\* returns undefined
\* ("veto" is a hook of the caller that returns false)
OnBeforeUpdate(c, self) ==
    LET impl == Impl(self, "onBeforeUpdate")
    IN  IF impl = "absent" THEN AbsentHook(c)
        ELSE IF impl = "veto"
        THEN [Logged(Logged(c, Call("onBeforeUpdate", "")),
                     Returned("onBeforeUpdate", False)) EXCEPT !.ret = False]
        ELSE [NoopHook(c, "onBeforeUpdate", "") EXCEPT !.ret = Undef]

\* onRedirectResponse: window.location.assign(url); the extended hooks
\* first register the popstate listener
OnRedirectResponse(c, self, url) ==
    LET impl == Impl(self, "onRedirectResponse")
        c0   == Logged(c, Call("onRedirectResponse", url))
    IN  CASE impl = "absent" -> AbsentHook(c)
          [] impl = "user"   -> UserHook(c, "onRedirectResponse", url)
          [] impl = "slow"   -> SlowHook(c, "onRedirectResponse", url)
          [] impl = "base"   ->
                Logged(Logged(c0, Native("location.assign", url)),
                       End("onRedirectResponse"))
          [] OTHER ->
                Logged(Logged(Logged(c0, Native("addEventListener", "popstate")),
                              Native("location.assign", url)),
                       End("onRedirectResponse"))

\* the loop of onValidationMessage over the fields from index i on
RECURSIVE ValidateFields(_, _, _, _, _, _)
ValidateFields(c, self, env, fields, i, isFirstInvalidField) ==
    IF i > Len(fields) \/ c.thrown THEN c
    ELSE IF ~Truthy(self.form) THEN Throw(c)     \* this.form.querySelectorAll
    ELSE
    LET arrayName == BracketName(fields[i][1])
        k         == FirstMatch(env.controls, arrayName)
    IN  IF k > 0 /\ env.controls[k].enabled
        THEN LET event == DispatchEvent("ajaxInvalidField",
                                        "ajaxInvalidField" \in env.prevent)
                 c1    == Logged(c, Ev("ajaxInvalidField", "window"))
                 c2    == IF isFirstInvalidField /\ ~event
                          THEN [c1 EXCEPT !.focused = env.controls[k].name]
                          ELSE c1
             IN  ValidateFields(c2, self, env, fields, i + 1, FALSE)
        ELSE ValidateFields(c, self, env, fields, i + 1, isFirstInvalidField)

\* onValidationMessage(message, fields) of request/defaults.ts and part_003
OnValidationMessage(c, self, env, message, fields) ==
    LET impl      == Impl(self, "onValidationMessage")
        element   == FormOrElement(self)
        called(x) == Logged(x, Call("onValidationMessage", message))
        fin(x)    == IF x.thrown THEN x ELSE Logged(x, End("onValidationMessage"))
        fired(x)  == IF Truthy(element) THEN Logged(x, Ev("ajaxValidation", element))
                     ELSE x
    IN  CASE impl = "absent" -> AbsentHook(c)
          [] impl \in {"base", "user"} -> NoopHook(c, "onValidationMessage", message)
          [] impl = "slow"   -> SlowHook(c, "onValidationMessage", message)
          [] impl = "request" ->
                IF ~Truthy(element) THEN Throw(called(c))
                ELSE fin(ValidateFields(fired(called(c)), self, env, fields, 1, TRUE))
          [] impl = "extras" ->
                fin(ValidateFields(fired(called(c)), self, env, fields, 1, TRUE))

\* a call that is not awaited: what it does happens at once, and an
\* exception it raises becomes an unhandled rejection of its promise
NotAwaited(c, after, slot) ==
    IF after.thrown /\ ~c.thrown
    THEN Logged([after EXCEPT !.thrown = FALSE], Unhandled(slot))
    ELSE after

Guarded(self) == self.variant = "extras"

\* the rest of the basic onUpdateResponse after the redirect test: the
\* assets hook, the partials (base.ts only), the validation hook
UpdateAssets(c, self, data) ==
    IF Truthy(MapGet(data, KAssets))
    THEN OnAssets(c, self, MapGet(data, KAssets)) ELSE c

UpdateValidation(c, self, env, data) ==
    IF c.thrown \/ ~MapHas(data, KErrorFld) THEN c
    ELSE NotAwaited(c, OnValidationMessage(c, self, env, MapGet(data, KErrorMsg),
                                           MapGet(data, KErrorFld)),
                    "onValidationMessage")

UpdateRedirect(c, self, data) ==
    NotAwaited(c, OnRedirectResponse(c, self, MapGet(data, KRedirect)),
               "onRedirectResponse")

UpdatePartials(c, self, env, data) ==
    IF c.thrown THEN c
    ELSE InjectPartials(c, Guarded(self), env.present, self.options.update, data)

\* onUpdateResponse(data)
\*   base.ts: redirect and return; assets; injectPartials; validation
\*   part_003: the basic hook of request/types.ts (redirect and return;
\*   assets; validation) is called and not awaited, then injectPartials
\*   runs in every case; after an awaited assets hook the validation of
\*   the basic hook continues only after injectPartials has run
OnUpdateResponse(c, self, env, data) ==
    LET impl      == Impl(self, "onUpdateResponse")
        called(x) == Logged(x, Call("onUpdateResponse", data))
        fin(x)    == IF x.thrown THEN x ELSE Logged(x, End("onUpdateResponse"))
        validated(skip, x) ==
            IF skip THEN x ELSE UpdateValidation(x, self, env, data)
        withAssets(x, a) ==
            validated(a.thrown,
                      UpdatePartials(NotAwaited(x, a, "onUpdateResponse"),
                                     self, env, data))
        basic(x) ==
            IF Truthy(MapGet(data, KRedirect))
            THEN UpdateRedirect(x, self, data)
            ELSE UpdateValidation(
                    UpdatePartials(UpdateAssets(x, self, data), self, env, data),
                    self, env, data)
        extras(x) ==
            IF Truthy(MapGet(data, KRedirect))
            THEN UpdatePartials(UpdateRedirect(x, self, data), self, env, data)
            ELSE IF Truthy(MapGet(data, KAssets))
            THEN withAssets(x, UpdateAssets(x, self, data))
            ELSE UpdatePartials(
                    NotAwaited(x, UpdateValidation(x, self, env, data),
                               "onUpdateResponse"),
                    self, env, data)
    IN  CASE impl = "absent" -> AbsentHook(c)
          [] impl = "user"   -> UserHook(c, "onUpdateResponse", data)
          [] impl \in {"base", "request"} -> fin(basic(called(c)))
          [] impl = "extras" -> fin(extras(called(c)))

\* onErrorMessage(message)
\*   base.ts: alert(message)
\*   request/defaults.ts, part_003: ajaxErrorMessage on window, and when it
\*   was prevented and there is a message, baseDefaults.onError(message),
\*   which reads message.response.statusText (message.response.data in
\*   the extras generation) and throws
OnErrorMessage(c, self, env, message) ==
    LET impl == Impl(self, "onErrorMessage")
        c0   == Logged(c, Call("onErrorMessage", message))
    IN  CASE impl = "absent" -> AbsentHook(c)
          [] impl = "user"   -> UserHook(c, "onErrorMessage", message)
          [] impl = "slow"   -> SlowHook(c, "onErrorMessage", message)
          [] impl = "base"   ->
                Logged(Logged(c0, Native("alert", message)), End("onErrorMessage"))
          [] OTHER ->
                LET event == DispatchEvent("ajaxErrorMessage",
                                           "ajaxErrorMessage" \in env.prevent)
                    c1    == Logged(c0, Ev("ajaxErrorMessage", "window"))
                IN  IF ~event /\ Truthy(message)
                    THEN Throw(Logged(c1, Call("onError", message)))
                    ELSE Logged(c1, End("onErrorMessage"))

\* onConfirmMessage(message); the result is left in ret
\*   base.ts: window.confirm(message || 'Are you sure?')
\*   request/defaults.ts, part_003: ajaxConfirmMessage on window; undefined
\*   when prevented; the native confirm when there is a message; else
\*   undefined
OnConfirmMessage(c, self, env, message) ==
    LET impl   == Impl(self, "onConfirmMessage")
        c0     == Logged(c, Call("onConfirmMessage", message))
        answer == IF env.confirmAnswer THEN True ELSE False
        returns(x, v) == [Logged(x, Returned("onConfirmMessage", v)) EXCEPT !.ret = v]
    IN  CASE impl = "absent" -> AbsentHook(c)
          [] impl = "user"   -> returns(c0, answer)
          [] impl = "base"   ->
                returns(Logged(c0, Native("confirm",
                                          IF Truthy(message) THEN message
                                          ELSE "Are you sure?")),
                        answer)
          [] OTHER ->
                LET event == DispatchEvent("ajaxConfirmMessage",
                                           "ajaxConfirmMessage" \in env.prevent)
                    c1    == Logged(c0, Ev("ajaxConfirmMessage", "window"))
                IN  IF ~event THEN returns(c1, Undef)
                    ELSE IF Truthy(message)
                    THEN returns(Logged(c1, Native("confirm", message)), answer)
                    ELSE returns(c1, Undef)

\* Array.prototype.join: the items with the separator between them
RECURSIVE Join(_, _)
Join(items, sep) ==
    IF Len(items) <= 1 THEN items
    ELSE << Head(items), sep >> \o Join(Tail(items), sep)

\* the configuration of the axios instance the constructor creates
AxiosDefaults(self) ==
    [method  |-> "post",
     headers |-> << <<"X-REQUESTED-WITH", <<"XMLHttpRequest">> >>,
                    <<"X-WINTER-REQUEST-HANDLER", <<self.handler>> >> >>]

\* a variant of getHeaders that never asks for flash messages
GetHeadersWithoutFlash(self) ==
    << <<"X-WINTER-REQUEST-PARTIALS", Join(MapKeys(self.options.update), "&")>> >>

\* getHeaders()
GetHeaders(self) ==
    << <<"X-WINTER-REQUEST-PARTIALS", Join(MapKeys(self.options.update), "&")>> >>
    \o (IF Truthy(Opt(self.options, "flash"))
        THEN << <<"X-WINTER-REQUEST-FLASH", <<"true">> >> >>
        ELSE << >>)

\* what this._axios.request(config) puts on the wire: the configuration of
\* the instance with the headers of the call over it, the method in capitals
AxiosRequest(self, headers, data) ==
    [method  |-> IF AxiosDefaults(self).method = "post" THEN "POST"
                 ELSE AxiosDefaults(self).method,
     headers |-> MapMerge(AxiosDefaults(self).headers, headers),
     data    |-> data]

\* ------------------------------------------------------------------------
\* The payload. Keys and values are strings; the files and json options
\* are left at their defaults, so an element-bound instance sends
\* URLSearchParams and never a FormData object.
\* ------------------------------------------------------------------------

\* isEmpty(obj): true as soon as a key is found
IsEmpty(obj) == obj # << >>

\* the name attribute of a control as one string
RECURSIVE FieldKey(_)
FieldKey(name) ==
    IF name = << >> THEN "" ELSE Head(name) \o FieldKey(Tail(name))

\* control.value; a control of a page that gives no values is empty
ControlValue(control) ==
    IF "value" \in DOMAIN control THEN control.value ELSE ""

\* new FormData(form): the enabled controls in document order, a later
\* entry of the same name overwriting the earlier one in init
RECURSIVE FormEntries(_)
FormEntries(controls) ==
    IF controls = << >> THEN << >>
    ELSE IF controls[Len(controls)].enabled
         THEN MapSet(FormEntries(SubSeq(controls, 1, Len(controls) - 1)),
                     FieldKey(controls[Len(controls)].name),
                     ControlValue(controls[Len(controls)]))
    ELSE FormEntries(SubSeq(controls, 1, Len(controls) - 1))

\* the data-request-data attributes of the ancestors of the element, the
\* nearest first; a page that names none has none
Ancestors(pg) == IF "ancestors" \in DOMAIN pg THEN pg.ancestors ELSE << >>

\* getRequestDataAttrs(el): the attributes of the ancestors, the outer
\* ones first, so that a nearer ancestor overrides a farther one
RECURSIVE AttrsFrom(_)
AttrsFrom(ancestors) ==
    IF ancestors = << >> THEN << >>
    ELSE MapMerge(AttrsFrom(Tail(ancestors)), ParamToObj(Head(ancestors)))

GetRequestDataAttrs(pg, element) ==
    IF Truthy(element) THEN AttrsFrom(Ancestors(pg)) ELSE << >>

\* isInputLike(this.element) with a name: the element of a page that
\* names no input is a link
HasInput(pg, element) == Truthy(element) /\ "input" \in DOMAIN pg

Payload(kind, entries) == [thrown |-> FALSE, kind |-> kind, entries |-> entries]
NoPayload == [thrown |-> TRUE, kind |-> "none", entries |-> << >>]

\* WinterRequestFrameworkBase.getData(data):
\* Object.assign({}, this.options.data, data)
GetDataBase(self, data) ==
    Payload("object", MapMerge(self.options.data, data))

\* Request.getData(): the argument of setup is not taken; options.data is
\* assigned only when isEmpty answers false
GetDataRequest(self, pg) ==
    LET attrs  == GetRequestDataAttrs(pg, self.element)
        merged == IF ~IsEmpty(self.options.data)
                  THEN MapMerge(attrs, self.options.data) ELSE attrs
        own    == IF ~Truthy(self.form) /\ HasInput(pg, self.element)
                     /\ ~MapHas(self.options.data, pg.input.name)
                  THEN MapSet(merged, pg.input.name, pg.input.value)
                  ELSE merged
        init   == IF Truthy(self.form) THEN FormEntries(pg.controls) ELSE << >>
    IN  Payload("URLSearchParams", MapMerge(init, own))

\* WinterRequestExtras.getData(): requestData is declared and never
\* initialised, so Object.assign(requestData, ...) and
\* requestData[inputName] = ... throw a TypeError, and
\* Object.assign(init, requestData) adds nothing
GetDataExtras(self, pg) ==
    IF ~IsEmpty(self.options.data) THEN NoPayload
    ELSE IF ~Truthy(self.form) /\ HasInput(pg, self.element)
            /\ ~MapHas(self.options.data, pg.input.name)
    THEN NoPayload
    ELSE Payload("URLSearchParams",
                 IF Truthy(self.form) THEN FormEntries(pg.controls) ELSE << >>)

\* this.getData(data) of setup
GetData(self, pg, data) ==
    CASE self.variant = "base"    -> GetDataBase(self, data)
      [] self.variant = "request" -> GetDataRequest(self, pg)
      [] self.variant = "extras"  -> GetDataExtras(self, pg)

\* onSetup()
\*   request/defaults.ts: wn.beforeRequest on the loading element,
\*   ajaxBeforeSend on window, ajaxPromise on the element (unguarded)
OnSetup(c, self) ==
    LET impl == Impl(self, "onSetup")
        c0   == Logged(c, Call("onSetup", ""))
        c1   == IF self.loading = "loading"
                THEN Logged(c0, Ev("wn.beforeRequest", "loading")) ELSE c0
        c2   == Logged(c1, Ev("ajaxBeforeSend", "window"))
    IN  CASE impl = "absent" -> AbsentHook(c)
          [] impl \in {"base", "user"} -> NoopHook(c, "onSetup", "")
          [] impl = "request" ->
                IF ~Truthy(self.element) THEN Throw(c2)
                ELSE Logged(Logged(c2, Ev("ajaxPromise", self.element)), End("onSetup"))
          [] impl = "extras" ->
                Logged(IF Truthy(self.element)
                       THEN Logged(c2, Ev("ajaxPromise", self.element)) ELSE c2,
                       End("onSetup"))

\* the flash messages of the response: onFlashMessage(message, type) for
\* every entry, each awaited
RECURSIVE FlashFrom(_, _, _, _)
FlashFrom(c, self, flash, i) ==
    IF i > Len(flash) \/ c.thrown THEN c
    ELSE FlashFrom(OnFlashMessage(c, self, flash[i][2], flash[i][1]),
                   self, flash, i + 1)

\* a loop over the flash messages that does not look at options.flash
FlashMessagesAlways(c, self, data) ==
    IF c.thrown THEN c
    ELSE IF MapHas(data, KFlash)
    THEN FlashFrom(c, self, MapGet(data, KFlash), 1)
    ELSE c

FlashMessages(c, self, data) ==
    IF c.thrown THEN c
    ELSE IF Truthy(self.options.flash) /\ MapHas(data, KFlash)
    THEN FlashFrom(c, self, MapGet(data, KFlash), 1)
    ELSE c

\* a success hook of the caller that is run in front of the default
\* behaviour in place of replacing it
OnSuccessChained(c, self, env, data) ==
    LET impl      == Impl(self, "onSuccess")
        element   == FormOrElement(self)
        event     == DispatchEvent("ajaxBeforeUpdate", "ajaxBeforeUpdate" \in env.prevent)
        called(x) == Logged(x, Call("onSuccess", data))
        fin(x)    == IF x.thrown THEN x ELSE Logged(x, End("onSuccess"))
        done(x)   == IF ~Truthy(Opt(self.options, "redirect"))
                     THEN IF Truthy(element) THEN Logged(x, Ev("ajaxDone", element))
                          ELSE IF impl = "request" THEN Throw(x) ELSE x
                     ELSE x
        before(x) == IF x.thrown THEN x ELSE OnBeforeUpdate(x, self)
        asked(x)  == IF Truthy(element) /\ ~x.thrown /\ x.ret # False
                     THEN Logged(x, Ev("ajaxBeforeUpdate", element)) ELSE x
        updated(x) == IF x.thrown THEN x ELSE OnUpdateResponse(x, self, env, data)
        succeeded(x) ==
            IF x.thrown THEN x
            ELSE IF Truthy(element) THEN fin(Logged(x, Ev("ajaxSuccess", element)))
            ELSE IF impl = "request" THEN Throw(x)
            ELSE fin(x)
        proceed(x) ==
            IF x.thrown THEN x
            ELSE IF x.ret = False THEN fin(x)
            ELSE IF Truthy(element) /\ ~event THEN fin(x)
            ELSE succeeded(updated(FlashMessages(x, self, data)))
    IN  CASE impl = "absent" -> AbsentHook(c)
          [] impl = "user"   ->
                proceed(asked(before(done(UserHook(c, "onSuccess", data)))))
          [] impl = "base"   -> fin(updated(FlashMessages(called(c), self, data)))
          [] OTHER -> proceed(asked(before(done(called(c)))))

\* onSuccess(response)
\*   base.ts: the flash messages, then onUpdateResponse
\*   request/defaults.ts: ajaxDone unless options.redirect, onBeforeUpdate,
\*   ajaxBeforeUpdate, the flash messages, onUpdateResponse, ajaxSuccess,
\*   all on this.form || this.element; part_003 guards the element
OnSuccess(c, self, env, data) ==
    LET impl      == Impl(self, "onSuccess")
        element   == FormOrElement(self)
        event     == DispatchEvent("ajaxBeforeUpdate", "ajaxBeforeUpdate" \in env.prevent)
        called(x) == Logged(x, Call("onSuccess", data))
        fin(x)    == IF x.thrown THEN x ELSE Logged(x, End("onSuccess"))
        done(x)   == IF ~Truthy(Opt(self.options, "redirect"))
                     THEN IF Truthy(element) THEN Logged(x, Ev("ajaxDone", element))
                          ELSE IF impl = "request" THEN Throw(x) ELSE x
                     ELSE x
        before(x) == IF x.thrown THEN x ELSE OnBeforeUpdate(x, self)
        asked(x)  == IF Truthy(element) /\ ~x.thrown /\ x.ret # False
                     THEN Logged(x, Ev("ajaxBeforeUpdate", element)) ELSE x
        updated(x) == IF x.thrown THEN x ELSE OnUpdateResponse(x, self, env, data)
        succeeded(x) ==
            IF x.thrown THEN x
            ELSE IF Truthy(element) THEN fin(Logged(x, Ev("ajaxSuccess", element)))
            ELSE IF impl = "request" THEN Throw(x)
            ELSE fin(x)
        proceed(x) ==
            IF x.thrown THEN x
            ELSE IF x.ret = False THEN fin(x)
            ELSE IF Truthy(element) /\ ~event THEN fin(x)
            ELSE succeeded(updated(FlashMessages(x, self, data)))
    IN  CASE impl = "absent" -> AbsentHook(c)
          [] impl = "user"   -> UserHook(c, "onSuccess", data)
          [] impl = "base"   -> fin(updated(FlashMessages(called(c), self, data)))
          [] OTHER -> proceed(asked(before(done(called(c)))))

\* the data of a response that has no body
NoData == << >>

\* The error caught by send(): a transport error with a response (status,
\* statusText, data), a network failure or a cancellation without a
\* response, or an exception raised inside the try block
HasResponse(error) == error.kind = "response"

\* onError(error)
\*   base.ts: reads error.response.statusText first, which throws when the
\*   error has no response; a 406 with data goes through onUpdateResponse
\*   and shows X_WINTER_ERROR_MESSAGE; onErrorMessage is not awaited
\*   request/defaults.ts, part_003: ajaxFail unless options.redirect
\*   before, and ajaxError before onErrorMessage
OnError(c, self, env, error) ==
    LET impl      == Impl(self, "onError")
        element   == FormOrElement(self)
        smart     == HasResponse(error) /\ error.status = 406 /\ error.data # NoData
        errorMsg  == IF smart THEN MapGet(error.data, KErrorMsg) ELSE error.statusText
        event     == DispatchEvent("ajaxError", "ajaxError" \in env.prevent)
        called(x) == Logged(x, Call("onError", error.kind))
        fin(x)    == IF x.thrown THEN x ELSE Logged(x, End("onError"))
        failed(x) == IF impl = "base" THEN x
                     ELSE IF ~Truthy(Opt(self.options, "redirect"))
                     THEN IF Truthy(element) THEN Logged(x, Ev("ajaxFail", element))
                          ELSE IF impl = "request" THEN Throw(x) ELSE x
                     ELSE x
        read(x)   == IF x.thrown THEN x
                     ELSE IF ~HasResponse(error) THEN Throw(x) ELSE x
        updated(x) == IF x.thrown \/ ~smart THEN x
                      ELSE OnUpdateResponse(x, self, env, error.data)
        notified(x) ==
            IF x.thrown \/ impl = "base" THEN x
            ELSE IF ~Truthy(element)
                 THEN IF impl = "request" THEN Throw(x) ELSE x
            ELSE Logged(x, Ev("ajaxError", element))
        shown(x)  ==
            IF x.thrown THEN x
            ELSE IF impl # "base" /\ Truthy(element) /\ ~event THEN fin(x)
            ELSE fin(NotAwaited(x, OnErrorMessage(x, self, env, errorMsg),
                                "onErrorMessage"))
    IN  CASE impl = "absent" -> AbsentHook(c)
          [] impl = "user"   -> UserHook(c, "onError", error.kind)
          [] OTHER -> shown(notified(updated(read(failed(called(c))))))

\* a complete hook that fires ajaxComplete ahead of ajaxAlways
OnCompleteSwapped(c, self) ==
    LET impl    == Impl(self, "onComplete")
        element == FormOrElement(self)
        c0      == Logged(c, Call("onComplete", ""))
        c1      == IF self.loading = "loading"
                   THEN Logged(c0, Ev("wn.afterRequest", "loading")) ELSE c0
    IN  CASE impl = "absent" -> AbsentHook(c)
          [] impl \in {"base", "user"} -> NoopHook(c, "onComplete", "")
          [] OTHER ->
                IF Truthy(element)
                THEN Logged(Logged(Logged(c1, Ev("ajaxComplete", element)),
                                   Ev("ajaxAlways", element)),
                            End("onComplete"))
                ELSE IF impl = "request" THEN Throw(c1)
                ELSE Logged(c1, End("onComplete"))

\* onComplete(response, error)
\*   request/defaults.ts: wn.afterRequest on the loading element, then
\*   ajaxAlways and ajaxComplete on this.form || this.element
OnComplete(c, self) ==
    LET impl    == Impl(self, "onComplete")
        element == FormOrElement(self)
        c0      == Logged(c, Call("onComplete", ""))
        c1      == IF self.loading = "loading"
                   THEN Logged(c0, Ev("wn.afterRequest", "loading")) ELSE c0
    IN  CASE impl = "absent" -> AbsentHook(c)
          [] impl \in {"base", "user"} -> NoopHook(c, "onComplete", "")
          [] OTHER ->
                IF Truthy(element)
                THEN Logged(Logged(Logged(c1, Ev("ajaxAlways", element)),
                                   Ev("ajaxComplete", element)),
                            End("onComplete"))
                ELSE IF impl = "request" THEN Throw(c1)
                ELSE Logged(c1, End("onComplete"))

\* ------------------------------------------------------------------------
\* Inputs: the attributes of the triggering element, the caller's options,
\* the page, the answers of the server
\* ------------------------------------------------------------------------
P1   == <<"p1">>
P2   == <<"p2">>
SelA == <<"#a">>
SelB == <<"#b">>
Frag == "<p>x</p>"

NoAttrs ==
    [request |-> "onSave", requestConfirm |-> Undef, requestRedirect |-> Undef,
     requestLoading |-> Undef, requestFlash |-> Undef, requestForm |-> Undef,
     requestUpdate |-> Undef, requestData |-> Undef,
     requestBrowserValidate |-> Undef]

Datasets ==
    { NoAttrs,
      [NoAttrs EXCEPT !.requestConfirm = "Sure?", !.requestFlash = "true",
                      !.requestUpdate = << <<P1, SelA>> >>],
      [NoAttrs EXCEPT !.requestFlash = "1", !.requestRedirect = "/next",
                      !.requestLoading = LoadingSelector,
                      !.requestBrowserValidate = "TRUE"],
      [NoAttrs EXCEPT !.requestFlash = "no", !.requestForm = FormSelector,
                      !.requestConfirm = "Sure?",
                      !.requestData = << <<"id", "5">> >>],
      [NoAttrs EXCEPT !.request = Undef, !.requestFlash = "True"] }

CallerOptions ==
    { << >>,
      [flash |-> True],
      [confirm |-> False],
      [confirm |-> True, update |-> << <<P2, <<"@", "#a">> >> >>],
      [redirect |-> "/c", form |-> Null, flash |-> False, confirm |-> False] }

\* the caller may hand the extended hook set of request/defaults.ts to a
\* Request
WithHandlers(caller, handlers) ==
    [k \in DOMAIN caller \cup {"handlers"} |->
        IF k = "handlers" THEN handlers ELSE caller[k]]

CallersOf(v) ==
    IF v = "request"
    THEN CallerOptions \cup { WithHandlers(o, RequestHandlers) : o \in CallerOptions }
    ELSE CallerOptions

Controls ==
    { << [name |-> <<"email">>, enabled |-> TRUE] >>,
      << [name |-> <<"user", "[", "email", "]">>, enabled |-> FALSE],
         [name |-> <<"email">>, enabled |-> TRUE],
         [name |-> <<"a", "[", "b", "]">>, enabled |-> TRUE] >> }

Prevents ==
    { {}, {"ajaxInvalidField"}, {"ajaxBeforeUpdate", "ajaxBeforeReplace"},
      {"ajaxError", "ajaxErrorMessage"}, {"wn.beforeRequest", "ajaxConfirmMessage"} }

\* the content of the target elements when the page is loaded
Old   == "<b>old</b>"
Blank == [e \in Elems |-> << >>]

Pages ==
    [closestForm : BOOLEAN, formInDom : {TRUE}, loadingInDom : {TRUE},
     present : {{"#a"}, {"#a", "#b"}}, controls : Controls, prevent : Prevents,
     content : {Blank}]

\* response bodies
Bodies ==
    { << <<KResult, "r">> >>,
      << <<P1, Frag>> >>,
      << <<SelA, Frag>> >>,
      << << <<"@", "#a">>, Frag>> >>,
      << << <<"^", "#a">>, "<i>y</i>">>, <<SelA, Frag>>, << <<"@", "#a">>, Frag>> >>,
      << <<SelB, Frag>>, <<SelA, Frag>> >>,
      << <<KRedirect, "/next">>, <<SelA, Frag>> >>,
      << <<KAssets, "assets">>, <<SelA, Frag>>,
         <<KErrorFld, << << <<"a", ".", "b">>, "Invalid">> >> >> >>,
      << <<KFlash, << <<"success", "Saved">>, <<"info", "Note">> >> >>,
         <<SelA, Frag>> >> }

ErrorBodies ==
    { << <<KErrorMsg, "Bad input">>,
         <<KErrorFld, << << <<"email">>, "Invalid">> >> >> >>,
      << <<KErrorFld, << << <<"zip">>, "Invalid">>, << <<"email">>, "Invalid">> >> >>,
         <<SelA, Frag>> >>,
      << <<KRedirect, "/login">> >> }

NoError == [kind |-> "none", status |-> 0, statusText |-> "", data |-> NoData]

ResponseErrors ==
    { [kind |-> "response", status |-> 406, statusText |-> "Not Acceptable", data |-> b]
        : b \in ErrorBodies }
    \cup
    { [kind |-> "response", status |-> 500, statusText |-> "Server Error", data |-> NoData] }

NetworkError == [kind |-> "network", status |-> 0, statusText |-> "", data |-> NoData]
CancelError  == [kind |-> "cancel", status |-> 0, statusText |-> "", data |-> NoData]
Exception    == [kind |-> "exception", status |-> 0, statusText |-> "", data |-> NoData]

\* ------------------------------------------------------------------------
\* The auxiliary data table (DOMDataStore of utils/data-store.ts): a
\* WeakMap from nodes to maps. A node without a map holds << >>: remove
\* deletes the map of a node with its last key, so a map that is there is
\* never empty.
\* ------------------------------------------------------------------------
Nodes == {"document", "inputA", "inputB"}

NoStorage == [k \in Nodes |-> << >>]

RECURSIVE MapDelete(_, _)
MapDelete(m, key) ==
    IF m = << >> THEN << >>
    ELSE IF Head(m)[1] = key THEN Tail(m)
    ELSE << Head(m) >> \o MapDelete(Tail(m), key)

\* this._storage.has(k); no node is the key null
StorageHas(st, k) == k \in Nodes /\ st[k] # << >>

\* get(k, v): this._storage.get(k).get(v), a TypeError when the node has
\* no map
StoreGet(st, k, key) ==
    IF StorageHas(st, k) THEN [thrown |-> FALSE, ret |-> MapGet(st[k], key)]
    ELSE [thrown |-> TRUE, ret |-> Undef]

\* has(k, v): this._storage.get(k) && this._storage.get(k).has(v)
StoreHas(st, k, key) ==
    IF ~StorageHas(st, k) THEN Undef
    ELSE IF MapHas(st[k], key) THEN True ELSE False

\* put(k, key, v)
StorePut(st, k, key, v) == [st EXCEPT ![k] = MapSet(@, key, v)]

\* a remove that drops the whole map of the node
StoreRemoveNode(st, k, key) ==
    [ret |-> IF StorageHas(st, k) /\ MapHas(st[k], key) THEN True ELSE False,
     st  |-> IF StorageHas(st, k) THEN [st EXCEPT ![k] = << >>] ELSE st]

\* remove(k, v): false without a map, else the answer of Map.delete; the
\* map goes with its last key
StoreRemove(st, k, key) ==
    [ret |-> IF StorageHas(st, k) /\ MapHas(st[k], key) THEN True ELSE False,
     st  |-> IF StorageHas(st, k) THEN [st EXCEPT ![k] = MapDelete(@, key)] ELSE st]

\* track-input before the first keyup
Inputs == {"inputA", "inputB"}

NoTracker ==
    [variant |-> "none", keys |-> 0, value |-> [e \in Inputs |-> ""],
     changed |-> {}, timers |-> {}, fired |-> << >>, made |-> << >>]

\* ------------------------------------------------------------------------
\* State
\* ------------------------------------------------------------------------
MaxSends == 1       \* send() calls followed on one instance

VARIABLES
    page,       \* the DOM and the listeners around the instance
    args,       \* the constructor arguments of the instance
    self,       \* the instance: variant, handler, options, element, form, loading
    pc,         \* where send() stands
    token,      \* the cancel token: TRUE once cancel() was called
    requests,   \* transport calls started with the token attached
    response,   \* the response data of a successful transport call
    error,      \* the error caught by send()
    rethrow,    \* an exception is propagating out of the catch block
    result,     \* how the promise of send() settled
    sends,      \* send() calls so far
    log,        \* notifications and hook calls of the current send()
    dom,        \* content of the target elements
    focused,    \* the name of the focused form control
    instances,  \* two instances: the variant of each and the objects its options hold
    heap,       \* for each object, the instances it was written through
    extra,      \* the data argument of the current send()
    storage,    \* the auxiliary data table: for every node its map
    journal,    \* the calls made on the data table, with what they returned
    tracker     \* track-input: keyups handled, pending timers, instances started

vars == <<page, args, self, pc, token, requests, response, error, rethrow,
          result, sends, log, dom, focused, instances, heap, extra,
          storage, journal, tracker>>

\* the nested objects of a configuration: the data map, the update map and
\* the hook set
ConfigParts == {"data", "update", "handlers"}

\* two instances side by side
Holders == {"A", "B"}

\* the objects a configuration can hold: those of the shared defaults and
\* those only one instance refers to
Objects == ({"defaults"} \cup Holders) \X ConfigParts

NoInstances ==
    [i \in Holders |-> [variant |-> "none", parts |-> [f \in ConfigParts |-> <<i, f>>]]]

NoWrites == [o \in Objects |-> {}]

NoSelf ==
    [ok |-> FALSE, variant |-> "none", handler |-> Undef, options |-> << >>,
     element |-> Null, form |-> Null, loading |-> Null]

NoArgs ==
    [variant |-> "none", hasElement |-> FALSE, dataset |-> NoAttrs,
     handler |-> Undef, caller |-> << >>]

NoBody == << >>

\* the context the hooks of an action run in, and the state it leaves
Ctx == [log |-> log, dom |-> dom, focused |-> focused, thrown |-> FALSE, ret |-> Undef]

Env(confirmAnswer) ==
    [prevent |-> page.prevent, present |-> page.present,
     controls |-> page.controls, confirmAnswer |-> confirmAnswer]

Leaves(c) ==
    /\ log' = c.log
    /\ dom' = c.dom
    /\ focused' = c.focused

Init ==
    /\ page \in Pages
    /\ args = NoArgs
    /\ self = NoSelf
    /\ pc = "new"
    /\ token = FALSE
    /\ requests = 0
    /\ response = NoBody
    /\ error = NoError
    /\ rethrow = FALSE
    /\ result = "none"
    /\ sends = 0
    /\ log = << >>
    /\ dom = page.content
    /\ focused = << >>
    /\ instances = NoInstances
    /\ heap = NoWrites
    /\ extra = NoData
    /\ storage = NoStorage
    /\ journal = << >>
    /\ tracker = NoTracker

\* new WinterRequestFrameworkBase(...), new Request(...),
\* new WinterRequestExtras(...)
Constructor(v, hasElement, dataset, handlerArg, caller) ==
    /\ pc = "new"
    /\ LET built(made) ==
              /\ self' = IF made.ok
                         THEN [ok |-> TRUE, variant |-> v, handler |-> made.handler,
                               options |-> made.options, element |-> made.element,
                               form |-> made.form, loading |-> made.loading]
                         ELSE NoSelf
              /\ pc' = IF made.ok THEN "idle" ELSE "failed"
       IN  built(Construct(v, page, hasElement, dataset, handlerArg, caller))
    /\ args' = [variant |-> v, hasElement |-> hasElement, dataset |-> dataset,
                handler |-> handlerArg, caller |-> caller]
    /\ UNCHANGED <<page, token, requests, response, error, rethrow, result,
                   sends, log, dom, focused>>
    /\ UNCHANGED <<instances, heap, extra, storage, journal, tracker>>

\* how send() ends before the try block is entered
Settled(how, c) ==
    /\ pc' = "done"
    /\ result' = how
    /\ Leaves(c)

\* send(), up to the confirmation.
\*   Request.send, WinterRequestExtras.send: the browser validation (which
\*   throws when checkValidity() answers true), ajaxSetup and
\*   wn.beforeRequest on the element, then super.send
\*   WinterRequestFrameworkBase.send: the test of options.confirm
\*   data is the argument of send(data)
SendWith(max, formValid, data) ==
    /\ pc \in {"idle", "done"}
    /\ sends < max
    /\ sends' = sends + 1
    /\ args' = NoArgs
    /\ response' = NoBody
    /\ error' = NoError
    /\ rethrow' = FALSE
    /\ LET c0      == [Ctx EXCEPT !.log = << >>]
           bound   == self.variant \in {"request", "extras"}
           hasEl   == Truthy(self.element)
           validates == bound /\ Truthy(Opt(self.options, "browserValidate"))
           start   == IF validates /\ Truthy(self.form)
                      THEN Logged(c0, Returned("checkValidity",
                                               IF formValid THEN True ELSE False))
                      ELSE c0
           c1      == IF bound /\ hasEl
                      THEN Logged(Logged(start, Ev("ajaxSetup", self.element)),
                                  Ev("wn.beforeRequest", self.element))
                      ELSE start
           event   == DispatchEvent("wn.beforeRequest", "wn.beforeRequest" \in page.prevent)
       IN  IF validates /\ ~Truthy(self.form)
           THEN Settled("rejected", c0)               \* this.form.checkValidity of null
           ELSE IF validates /\ formValid
           THEN Settled("rejected:ValidationFailedError",
                        Logged(start, Native("reportValidity", "form")))
           ELSE IF bound /\ ~hasEl /\ self.variant = "request"
           THEN Settled("rejected", c0)
           ELSE IF bound /\ hasEl /\ ~event
           THEN Settled("void", c1)
           ELSE /\ Leaves(c1)
                /\ result' = "pending"
                /\ pc' = IF Opt(self.options, "confirm") # False
                         THEN "confirming" ELSE "setup"
    /\ UNCHANGED <<page, self, token, requests>>
    /\ extra' = data
    /\ UNCHANGED <<instances, heap, storage, journal, tracker>>

\* send() without a data argument
SendUpTo(max, formValid) == SendWith(max, formValid, NoData)

Send(formValid) == SendUpTo(MaxSends, formValid)

\* a confirmation test that only takes the boolean false for a refusal
DeclinedStrict(ret) == ret = False

\* if (!result) return;
Declined(ret) == ~Truthy(ret)

\* the confirmation: onConfirmMessage(message), a falsy answer ends send()
Confirm(answer) ==
    /\ pc = "confirming"
    /\ LET confirm == Opt(self.options, "confirm")
           message == IF confirm \notin {True, False, Undef, Null} THEN confirm ELSE Null
           c       == OnConfirmMessage(Ctx, self, Env(answer), message)
       IN  IF c.thrown THEN Settled("rejected", c)
           ELSE IF Declined(c.ret) THEN Settled("void", c)
           ELSE /\ Leaves(c)
                /\ pc' = "setup"
                /\ UNCHANGED result
    /\ UNCHANGED <<page, args, self, token, requests, response, error, rethrow, sends>>
    /\ UNCHANGED <<instances, heap, extra, storage, journal, tracker>>

\* setup(data) and the start of this._axios.request(config): the setup
\* hook, then getData(data) and getHeaders(); a token that is already
\* cancelled makes the call reject without a request
Setup ==
    /\ pc = "setup"
    /\ LET hooked == OnSetup(Ctx, self)
           built  == GetData(self, page, extra)
           c      == IF hooked.thrown \/ ~built.thrown THEN hooked ELSE Throw(hooked)
           config == AxiosRequest(self, GetHeaders(self), [kind |-> built.kind, entries |-> built.entries])
       IN  /\ Leaves(IF c.thrown THEN c ELSE Logged(c, Transport(config)))
           /\ IF c.thrown
              THEN /\ error' = Exception
                   /\ pc' = "failing"
                   /\ UNCHANGED requests
              ELSE /\ requests' = requests + 1
                   /\ error' = IF token THEN CancelError ELSE NoError
                   /\ pc' = IF token THEN "failing" ELSE "sending"
    /\ UNCHANGED <<page, args, self, token, response, rethrow, result, sends>>
    /\ UNCHANGED <<instances, heap, extra, storage, journal, tracker>>

\* cancel(): this.axiosCancelToken.cancel()
Cancel ==
    /\ pc \in {"idle", "confirming", "setup", "sending", "succeeding",
               "failing", "completing", "done"}
    /\ ~token
    /\ token' = TRUE
    /\ UNCHANGED <<page, args, self, pc, requests, response, error, rethrow,
                   result, sends, log, dom, focused>>
    /\ UNCHANGED <<instances, heap, extra, storage, journal, tracker>>

\* the transport call settles: with a response, with an error, or with
\* the cancellation when the token was cancelled meanwhile
Respond(body, err) ==
    /\ pc = "sending"
    /\ IF token
       THEN /\ error' = CancelError
            /\ response' = NoBody
            /\ pc' = "failing"
       ELSE IF err = NoError
       THEN /\ response' = body
            /\ error' = NoError
            /\ pc' = "succeeding"
       ELSE /\ error' = err
            /\ response' = NoBody
            /\ pc' = "failing"
    /\ UNCHANGED <<page, args, self, token, requests, rethrow, result, sends,
                   log, dom, focused>>
    /\ UNCHANGED <<instances, heap, extra, storage, journal, tracker>>

\* try: await onSuccess(response); an exception goes to the catch block
Succeed ==
    /\ pc = "succeeding"
    /\ LET tried(c) ==
              /\ Leaves(c)
              /\ error' = IF c.thrown THEN Exception ELSE NoError
              /\ pc' = IF c.thrown THEN "failing" ELSE "completing"
       IN  tried(OnSuccess(Ctx, self, Env(FALSE), response))
    /\ UNCHANGED <<page, args, self, token, requests, response, rethrow, result, sends>>
    /\ UNCHANGED <<instances, heap, extra, storage, journal, tracker>>

\* a catch block followed by the completing step, in place of a finally
\* block: an exception of the error hook leaves send() at once
FailWithoutFinally ==
    /\ pc = "failing"
    /\ LET caught(c) ==
              /\ Leaves(c)
              /\ rethrow' = c.thrown
              /\ pc' = IF c.thrown THEN "done" ELSE "completing"
              /\ result' = IF c.thrown THEN "rejected" ELSE result
       IN  caught(OnError(Ctx, self, Env(FALSE), error))
    /\ UNCHANGED <<page, args, self, token, requests, response, error, sends>>
    /\ UNCHANGED <<instances, heap, extra, storage, journal, tracker>>

\* catch: await onError(error); an exception of the hook leaves send()
\* after the finally block
Fail ==
    /\ pc = "failing"
    /\ LET caught(c) ==
              /\ Leaves(c)
              /\ rethrow' = c.thrown
              /\ pc' = "completing"
       IN  caught(OnError(Ctx, self, Env(FALSE), error))
    /\ UNCHANGED <<page, args, self, token, requests, response, error, result, sends>>
    /\ UNCHANGED <<instances, heap, extra, storage, journal, tracker>>

\* finally: await onComplete(response, error); then send() settles
Complete ==
    /\ pc = "completing"
    /\ LET c == OnComplete(Ctx, self)
       IN  /\ Leaves(c)
           /\ result' = IF c.thrown \/ rethrow THEN "rejected"
                        ELSE IF error = NoError THEN "response" ELSE "void"
           /\ pc' = "done"
    /\ UNCHANGED <<page, args, self, token, requests, response, error, rethrow, sends>>
    /\ UNCHANGED <<instances, heap, extra, storage, journal, tracker>>

Next ==
    \/ \E v \in Variants, hasElement \in BOOLEAN, dataset \in Datasets,
          handlerArg \in HandlerNames :
          \E caller \in CallersOf(v) :
             Constructor(v, hasElement, dataset, handlerArg, caller)
    \/ \E formValid \in BOOLEAN : Send(formValid)
    \/ \E answer \in BOOLEAN : Confirm(answer)
    \/ Setup
    \/ Cancel
    \/ \E body \in Bodies : Respond(body, NoError)
    \/ \E err \in ResponseErrors \cup {NetworkError} : Respond(NoBody, err)
    \/ Succeed
    \/ Fail
    \/ Complete

Spec == Init /\ [][Next]_vars

\* ------------------------------------------------------------------------
\* Repeated injection: injectPartials applied again and again to the same
\* page with the same response data
\* ------------------------------------------------------------------------
MaxInjections == 3

Contents == [Elems -> {<< >>, << Old >>}]

InjectPages ==
    { pg \in [closestForm : {TRUE}, formInDom : {TRUE}, loadingInDom : {TRUE},
              present : {{"#a"}, {"#a", "#b"}}, controls : Controls,
              prevent : {{}, {"ajaxBeforeReplace"}}, content : Contents] :
          Len(pg.controls) = 1 }

InjectDatasets ==
    { NoAttrs, [NoAttrs EXCEPT !.requestUpdate = << <<P1, <<"@", "#a">> >> >>] }

InjectBodies ==
    { << <<SelA, Frag>> >>,
      << << <<"@", "#a">>, Frag>> >>,
      << << <<"^", "#a">>, Frag>> >>,
      << <<P1, Frag>> >>,
      << <<SelB, Frag>> >>,
      << << <<"^", "#a">>, "<i>y</i>">>, <<SelA, Frag>>, << <<"@", "#a">>, Frag>> >> }

\* the calls of injectPartials that ran to their end
Applied == Cardinality({i \in 1..Len(log) :
                           log[i][1] = "event" /\ log[i][2] = "ajaxUpdateComplete"})

InjectInit ==
    /\ page \in InjectPages
    /\ \E v \in {"request", "extras"}, dataset \in InjectDatasets :
          LET bound(made) ==
                 /\ self = [ok |-> TRUE, variant |-> v, handler |-> made.handler,
                            options |-> made.options, element |-> made.element,
                            form |-> made.form, loading |-> made.loading]
                 /\ args = [variant |-> v, hasElement |-> TRUE, dataset |-> dataset,
                            handler |-> Undef, caller |-> << >>]
          IN  bound(Construct(v, page, TRUE, dataset, Undef, << >>))
    /\ pc = "injecting"
    /\ token = FALSE
    /\ requests = 0
    /\ response \in InjectBodies
    /\ error = NoError
    /\ rethrow = FALSE
    /\ result = "none"
    /\ sends = 0
    /\ log = << >>
    /\ dom = page.content
    /\ focused = << >>
    /\ instances = NoInstances
    /\ heap = NoWrites
    /\ extra = NoData
    /\ storage = NoStorage
    /\ journal = << >>
    /\ tracker = NoTracker

\* injectPartials.call(this, this.options.update, data)
InjectAgain ==
    /\ pc = "injecting"
    /\ Applied < MaxInjections
    /\ LET injected(c) ==
              /\ Leaves(c)
              /\ pc' = IF c.thrown THEN "thrown" ELSE "injecting"
       IN  injected(InjectPartials(Ctx, Guarded(self), page.present,
                                   self.options.update, response))
    /\ UNCHANGED <<page, args, self, token, requests, response, error, rethrow,
                   result, sends>>
    /\ UNCHANGED <<instances, heap, extra, storage, journal, tracker>>

InjectNext == InjectAgain

SpecInject == InjectInit /\ [][InjectNext]_vars

\* ------------------------------------------------------------------------
\* Hooks of the caller: instances whose caller supplies a hook of its own,
\* either alone (handlers: { onSuccess }) or spread over the default set
\* (handlers: { ...defaults.handlers, onSuccess })
\* ------------------------------------------------------------------------
Overrides ==
    { <<"onBeforeUpdate", "veto">>, <<"onSuccess", "user">>,
      <<"onError", "user">>, <<"onUpdateResponse", "user">> }

Alone(o)        == [s \in HookSlots |-> IF s = o[1] THEN o[2] ELSE "absent"]
Over(default, o) == [default EXCEPT ![o[1]] = o[2]]

HookCallers(v) ==
    { [confirm |-> False, handlers |-> Alone(o)] : o \in Overrides }
    \cup
    ( IF v = "extras" THEN {}
      ELSE { [confirm |-> False,
              handlers |-> Over(IF v = "base" THEN BaseHandlers ELSE RequestHandlers, o)]
                : o \in Overrides } )

HookPages ==
    { pg \in Pages : /\ pg.closestForm
                     /\ Len(pg.controls) = 1
                     /\ pg.prevent \in {{}, {"ajaxBeforeUpdate", "ajaxBeforeReplace"}} }

HookDatasets ==
    { NoAttrs,
      [NoAttrs EXCEPT !.requestFlash = "true", !.requestUpdate = << <<P1, SelA>> >>],
      [NoAttrs EXCEPT !.requestFlash = "true",
                      !.requestUpdate = << <<P2, SelB>>, <<P1, SelA>> >>] }

HooksInit == Init /\ page \in HookPages

HooksNext ==
    \/ \E v \in Variants, dataset \in HookDatasets :
          \E caller \in HookCallers(v) :
             Constructor(v, TRUE, dataset, "onSave", caller)
    \/ \E formValid \in BOOLEAN : Send(formValid)
    \/ Setup
    \/ Cancel
    \/ \E body \in Bodies : Respond(body, NoError)
    \/ \E err \in ResponseErrors \cup {NetworkError} : Respond(NoBody, err)
    \/ Succeed
    \/ Fail
    \/ Complete

SpecHooks == HooksInit /\ [][HooksNext]_vars

\* ------------------------------------------------------------------------
\* Construction with any of the handler names
\* ------------------------------------------------------------------------
SpelledNames == {Undef} \cup {p[1] : p \in HandlerSpellings}

ConstructPages ==
    { pg \in Pages : Len(pg.controls) = 1 /\ pg.prevent = {} }

ConstructInit == Init /\ page \in ConstructPages

ConstructNext ==
    \/ \E v \in Variants, hasElement \in BOOLEAN, dataset \in Datasets,
          handlerArg \in SpelledNames :
          \E caller \in {<< >>, [confirm |-> False]} :
             Constructor(v, hasElement, dataset, handlerArg, caller)
    \/ \E formValid \in BOOLEAN : Send(formValid)

SpecConstruct == ConstructInit /\ [][ConstructNext]_vars

\* ------------------------------------------------------------------------
\* Two instances and the objects their configurations hold
\* ------------------------------------------------------------------------
\* the object the options of a new instance hold for a part, where given
\* are the parts the caller passes an object of its own for
\*   base:    { ...defaults, ...options } copies the references of defaults
\*   request: Object.assign(this.options, { update: paramToObj(..),
\*            data: paramToObj(..) }, options) over those references
\*   extras:  deepmerge(defaults, options) clones what it merges
Holds(v, i, f, given) ==
    IF f \in given THEN <<i, f>>
    ELSE CASE v = "base"    -> <<"defaults", f>>
           [] v = "request" -> IF f = "handlers" THEN <<"defaults", f>> ELSE <<i, f>>
           [] OTHER         -> <<i, f>>

OwnersInit ==
    /\ Init
    /\ page \in ConstructPages
    /\ page.closestForm /\ page.present = {"#a"}

\* new ...(element, handler, options) for one of the two instances
NewInstance(i, v, given) ==
    /\ instances[i].variant = "none"
    /\ instances' = [instances EXCEPT ![i] =
                        [variant |-> v,
                         parts |-> [f \in ConfigParts |-> Holds(v, i, f, given)]]]
    /\ UNCHANGED <<page, args, self, pc, token, requests, response, error, rethrow,
                   result, sends, log, dom, focused, heap, extra,
                   storage, journal, tracker>>

\* a write through the configuration of an instance, such as
\* a.options.data.id = 5 or a.options.handlers.onSuccess = f
Mutate(i, f) ==
    /\ instances[i].variant # "none"
    /\ heap' = [heap EXCEPT ![instances[i].parts[f]] = @ \cup {i}]
    /\ UNCHANGED <<page, args, self, pc, token, requests, response, error, rethrow,
                   result, sends, log, dom, focused, instances, extra,
                   storage, journal, tracker>>

OwnersNext ==
    \/ \E i \in Holders, v \in Variants, given \in SUBSET ConfigParts :
          NewInstance(i, v, given)
    \/ \E i \in Holders, f \in ConfigParts : Mutate(i, f)

SpecOwners == OwnersInit /\ [][OwnersNext]_vars

\* ------------------------------------------------------------------------
\* send() called again on the same instance, as the submit listener of
\* attachEventListeners does on every submit
\* ------------------------------------------------------------------------
MaxResends == 2

ResendNext ==
    \/ \E v \in Variants : Constructor(v, TRUE, NoAttrs, "onSave", [confirm |-> False])
    \/ \E formValid \in BOOLEAN : SendUpTo(MaxResends, formValid)
    \/ Setup
    \/ Cancel
    \/ \E body \in Bodies : Respond(body, NoError)
    \/ \E err \in ResponseErrors \cup {NetworkError} : Respond(NoBody, err)
    \/ Succeed
    \/ Fail
    \/ Complete

SpecResend == ConstructInit /\ [][ResendNext]_vars

\* ------------------------------------------------------------------------
\* Hooks of the caller that take their time: the three hooks the code
\* calls without await (onErrorMessage, onValidationMessage,
\* onRedirectResponse) return a promise that settles later
\* ------------------------------------------------------------------------
SlowSlots == {"onErrorMessage", "onValidationMessage", "onRedirectResponse"}

SlowCallers(v) ==
    IF v = "extras"
    THEN { [confirm |-> False, handlers |-> Alone(<<slot, "slow">>)] : slot \in SlowSlots }
    ELSE { [confirm |-> False,
            handlers |-> Over(IF v = "base" THEN BaseHandlers ELSE RequestHandlers,
                              <<slot, "slow">>)] : slot \in SlowSlots }

\* the calls of the hook that have not settled
Unsettled(slot) ==
    {i \in 1..Len(log) :
        /\ log[i] = Pending(slot)
        /\ \A j \in (i + 1)..Len(log) : log[j] # End(slot)}

\* the promise of a slow hook settles
Resume(slot) ==
    /\ Unsettled(slot) # {}
    /\ log' = Append(log, End(slot))
    /\ UNCHANGED <<page, args, self, pc, token, requests, response, error, rethrow,
                   result, sends, dom, focused, instances, heap, extra,
                   storage, journal, tracker>>

AsyncNext ==
    \/ \E v \in Variants, dataset \in HookDatasets :
          \E caller \in SlowCallers(v) :
             Constructor(v, TRUE, dataset, "onSave", caller)
    \/ \E formValid \in BOOLEAN : Send(formValid)
    \/ Setup
    \/ Cancel
    \/ \E body \in Bodies : Respond(body, NoError)
    \/ \E err \in ResponseErrors \cup {NetworkError} : Respond(NoBody, err)
    \/ Succeed
    \/ Fail
    \/ Complete
    \/ \E slot \in SlowSlots : Resume(slot)

SpecAsync == HooksInit /\ [][AsyncNext]_vars

\* ------------------------------------------------------------------------
\* The payload of send(data): instances configured with a data option of
\* zero, one or several keys, on pages whose form has values and whose
\* element may be an input or sit below an element with data-request-data
\* ------------------------------------------------------------------------
MaxCalls == 2

DataControls ==
    << [name |-> <<"email">>, enabled |-> TRUE, value |-> "a@b"],
       [name |-> <<"id">>, enabled |-> TRUE, value |-> "1"],
       [name |-> <<"off">>, enabled |-> FALSE, value |-> "0"] >>

DataPages ==
    [closestForm : BOOLEAN, formInDom : {TRUE}, loadingInDom : {TRUE},
     present : {{"#a"}}, controls : {DataControls}, prevent : {{}},
     content : {Blank},
     ancestors : { << >>, << << <<"tag", "near">> >>, << <<"tag", "far">>, <<"id", "9">> >> >> }]
    \cup
    [closestForm : BOOLEAN, formInDom : {TRUE}, loadingInDom : {TRUE},
     present : {{"#a"}}, controls : {DataControls}, prevent : {{}},
     content : {Blank}, ancestors : {<< >>},
     input : {[name |-> "q", value |-> "typed"]}]

DataDatasets ==
    { NoAttrs,
      [NoAttrs EXCEPT !.requestData = << <<"id", "5">> >>],
      [NoAttrs EXCEPT !.requestData = << <<"id", "5">>, <<"tag", "x">> >>] }

DataCallers ==
    { [confirm |-> False],
      [confirm |-> False, data |-> << <<"page", "2">> >>] }

ExtraData ==
    { << >>, << <<"q", "abc">> >>, << <<"id", "7">>, <<"sort", "asc">> >> }

DataInit ==
    /\ page \in DataPages
    /\ args = NoArgs
    /\ self = NoSelf
    /\ pc = "new"
    /\ token = FALSE
    /\ requests = 0
    /\ response = NoBody
    /\ error = NoError
    /\ rethrow = FALSE
    /\ result = "none"
    /\ sends = 0
    /\ log = << >>
    /\ dom = page.content
    /\ focused = << >>
    /\ instances = NoInstances
    /\ heap = NoWrites
    /\ extra = NoData
    /\ storage = NoStorage
    /\ journal = << >>
    /\ tracker = NoTracker

DataNext ==
    \/ \E v \in Variants, dataset \in DataDatasets, caller \in DataCallers :
          Constructor(v, TRUE, dataset, "onSave", caller)
    \/ \E data \in ExtraData : SendWith(MaxCalls, FALSE, data)
    \/ Setup
    \/ Respond(NoBody, NoError)
    \/ Respond(NoBody, NetworkError)
    \/ Succeed
    \/ Fail
    \/ Complete

SpecData == DataInit /\ [][DataNext]_vars

\* ------------------------------------------------------------------------
\* Nested maps of the caller: a hook set with one hook, an update map with
\* one key, over an element that names a partial of its own
\* ------------------------------------------------------------------------
MergeCallers ==
    { [confirm |-> False, handlers |-> Alone(<<"onSuccess", "user">>)],
      [confirm |-> False, update |-> << <<P2, SelB>> >>],
      [confirm |-> False, update |-> << <<P2, SelB>> >>,
       handlers |-> Alone(<<"onError", "user">>)] }

MergeDatasets ==
    { NoAttrs,
      [NoAttrs EXCEPT !.requestUpdate = << <<P1, SelA>> >>],
      [NoAttrs EXCEPT !.requestUpdate = << <<P1, SelA>> >>,
                      !.requestData = << <<"id", "5">> >>] }

MergeNext ==
    \/ \E v \in Variants, dataset \in MergeDatasets, caller \in MergeCallers :
          Constructor(v, TRUE, dataset, "onSave", caller)
    \/ Send(FALSE)
    \/ Setup
    \/ \E body \in Bodies : Respond(body, NoError)
    \/ Respond(NoBody, NetworkError)
    \/ Succeed
    \/ Fail
    \/ Complete

SpecMerge == HooksInit /\ [][MergeNext]_vars

\* ------------------------------------------------------------------------
\* The data table on its own: any calls of put, remove, get and has
\* ------------------------------------------------------------------------
MaxOps == 3

StoreNodes  == {"document", "inputA"}
StoreKeys   == {"track_input_last_value", "track_input_timer"}
StoreValues == {"v1", "v2"}

\* the variables of the request lifecycle
requestVars == <<page, args, self, pc, token, requests, response, error, rethrow,
                 result, sends, log, dom, focused, instances, heap, extra>>

QuietPage ==
    [closestForm |-> FALSE, formInDom |-> TRUE, loadingInDom |-> TRUE,
     present |-> {"#a"}, controls |-> << [name |-> <<"email">>, enabled |-> TRUE] >>,
     prevent |-> {}, content |-> Blank]

\* no request instance yet
Quiet ==
    /\ page = QuietPage
    /\ args = NoArgs
    /\ self = NoSelf
    /\ pc = "new"
    /\ token = FALSE
    /\ requests = 0
    /\ response = NoBody
    /\ error = NoError
    /\ rethrow = FALSE
    /\ result = "none"
    /\ sends = 0
    /\ log = << >>
    /\ dom = page.content
    /\ focused = << >>
    /\ instances = NoInstances
    /\ heap = NoWrites
    /\ extra = NoData

StoreInit ==
    /\ Quiet
    /\ storage = NoStorage
    /\ journal = << >>
    /\ tracker = NoTracker

Entry(op, k, key, v, ret) == [op |-> op, k |-> k, key |-> key, v |-> v, ret |-> ret]

\* DataStore.put(k, key, v)
Put(k, key, v) ==
    /\ Len(journal) < MaxOps
    /\ storage' = StorePut(storage, k, key, v)
    /\ journal' = Append(journal, Entry("put", k, key, v, "this"))
    /\ UNCHANGED tracker
    /\ UNCHANGED requestVars

\* DataStore.remove(k, key)
Remove(k, key) ==
    /\ Len(journal) < MaxOps
    /\ storage' = StoreRemove(storage, k, key).st
    /\ journal' = Append(journal, Entry("remove", k, key, "", StoreRemove(storage, k, key).ret))
    /\ UNCHANGED tracker
    /\ UNCHANGED requestVars

\* DataStore.get(k, key)
Get(k, key) ==
    /\ Len(journal) < MaxOps
    /\ journal' = Append(journal,
                         Entry("get", k, key, "",
                               IF StoreGet(storage, k, key).thrown THEN "TypeError"
                               ELSE StoreGet(storage, k, key).ret))
    /\ UNCHANGED <<storage, tracker>>
    /\ UNCHANGED requestVars

\* DataStore.has(k, key)
Has(k, key) ==
    /\ Len(journal) < MaxOps
    /\ journal' = Append(journal, Entry("has", k, key, "", StoreHas(storage, k, key)))
    /\ UNCHANGED <<storage, tracker>>
    /\ UNCHANGED requestVars

StoreNext ==
    \/ \E k \in StoreNodes, key \in StoreKeys, v \in StoreValues : Put(k, key, v)
    \/ \E k \in StoreNodes, key \in StoreKeys : Remove(k, key)
    \/ \E k \in StoreNodes, key \in StoreKeys : Get(k, key)
    \/ \E k \in StoreNodes, key \in StoreKeys : Has(k, key)

SpecStore == StoreInit /\ [][StoreNext]_vars

\* ------------------------------------------------------------------------
\* trackInput: the keydown and keyup listeners of the document and the
\* timer they start.  tracker.timers are the running timers with the input
\* each was started for, tracker.fired the inputs whose timer ran out, and
\* tracker.made the instances the listeners created.
\* ------------------------------------------------------------------------
MaxKeys == 3

Typed == {"a", "ab"}

\* the handle window.setTimeout returns for the n-th key event
TimerId(n) == "timer" \o ToString(n)

\* the instance the n-th listener created
InstanceId(n) == "request" \o ToString(n)

TrackInit ==
    /\ Quiet
    /\ storage = NoStorage
    /\ journal = << >>
    /\ \E v \in {"request", "extras"} : tracker = [NoTracker EXCEPT !.variant = v]

\* another script of the page keeps data of its own for the input in the
\* table, which is one object shared by all its importers
Annotate(input) ==
    /\ ~StorageHas(storage, input)
    /\ storage' = StorePut(storage, input, "note", "x")
    /\ UNCHANGED <<journal, tracker>>
    /\ UNCHANGED requestVars

\* if (DataStore.has(document, 'track_input_timer')) { clearTimeout; remove }
TimerPending(st) == StoreHas(st, "document", "track_input_timer") = True

ClearTimer(st, timers) ==
    IF TimerPending(st)
    THEN {t \in timers : t.id # StoreGet(st, "document", "track_input_timer").ret}
    ELSE timers

RemoveTimer(st) ==
    IF TimerPending(st) THEN StoreRemove(st, "document", "track_input_timer").st ELSE st

\* `this` of the listeners is the handlers map trackInput was called on,
\* which has no value
ThisValue == Undef

\* the Enter key on a tracked input
Keydown(target) ==
    /\ tracker.keys < MaxKeys
    /\ storage' = RemoveTimer(storage)
    /\ tracker' = [tracker EXCEPT
                      !.keys = @ + 1,
                      !.timers = ClearTimer(storage, @),
                      !.made = Append(@, [id |-> InstanceId(tracker.keys + 1),
                                          element |-> target, by |-> "keydown",
                                          canceled |-> Undef,
                                          sent |-> tracker.variant = "extras"])]
    /\ UNCHANGED journal
    /\ UNCHANGED requestVars

\* a key released on a tracked input that now has the value `value`
Keyup(target, value) ==
    /\ tracker.keys < MaxKeys
    /\ IF StoreGet(storage, target, "track_input_last_value").thrown
       THEN /\ tracker' = [tracker EXCEPT
                             !.keys = @ + 1,
                             !.value[target] = value,
                             !.changed = IF value # tracker.value[target]
                                         THEN @ \cup {target} ELSE @]
            /\ UNCHANGED storage
       ELSE IF /\ StoreGet(storage, target, "track_input_last_value").ret # Undef
               /\ StoreGet(storage, target, "track_input_last_value").ret = ThisValue
       THEN /\ tracker' = [tracker EXCEPT !.keys = @ + 1, !.value[target] = value]
            /\ UNCHANGED storage
       ELSE /\ storage' =
                  StorePut(RemoveTimer(StorePut(storage, target, "track_input_last_value", value)),
                           "document", "track_input_timer", TimerId(tracker.keys + 1))
            /\ tracker' = [tracker EXCEPT
                             !.keys = @ + 1,
                             !.value[target] = value,
                             !.changed = IF value # tracker.value[target]
                                         THEN @ \cup {target} ELSE @,
                             !.timers = ClearTimer(storage, @)
                                          \cup {[id |-> TimerId(tracker.keys + 1),
                                                 target |-> target]}]
    /\ UNCHANGED journal
    /\ UNCHANGED requestVars

\* ev.currentTarget once the listener has returned
CurrentTarget == Null

\* the timer t runs out
TimerFires(t) ==
    /\ t \in tracker.timers
    /\ IF StoreGet(storage, CurrentTarget, "track_input_last_request").thrown
       THEN /\ tracker' = [tracker EXCEPT
                             !.timers = @ \ {t},
                             !.fired = Append(@, t.target)]
            /\ UNCHANGED storage
       ELSE /\ tracker' = [tracker EXCEPT
                             !.timers = @ \ {t},
                             !.fired = Append(@, t.target),
                             !.changed = @ \ {t.target},
                             !.made = Append(@, [id |-> InstanceId(tracker.keys + Len(tracker.fired) + 1),
                                                 element |-> t.target, by |-> "timer",
                                                 canceled |-> StoreGet(storage, CurrentTarget,
                                                                       "track_input_last_request").ret,
                                                 sent |-> TRUE])]
            /\ storage' = StorePut(storage, CurrentTarget, "track_input_last_request",
                                   InstanceId(tracker.keys + Len(tracker.fired) + 1))
    /\ UNCHANGED journal
    /\ UNCHANGED requestVars

Timeout == \E t \in tracker.timers : TimerFires(t)

TrackNext ==
    \/ \E input \in Inputs : Annotate(input)
    \/ \E target \in Inputs : Keydown(target)
    \/ \E target \in Inputs, value \in Typed : Keyup(target, value)
    \/ Timeout

SpecTrack == TrackInit /\ [][TrackNext]_vars

\* a timer that was started and not cleared runs out
SpecTrackLive == SpecTrack /\ WF_vars(Timeout)

\* ------------------------------------------------------------------------
\* Properties
\* ------------------------------------------------------------------------
Positions(kind, name) ==
    {i \in 1..Len(log) : log[i][1] = kind /\ log[i][2] = name}

Fired(name)     == Positions("event", name) # {}
Called(slot)    == Positions("hook", slot) # {}
TransportCalled == Positions("transport", "request") # {}

\* the confirm hook of the current send() returned a falsy value
ConfirmDeclined ==
    \E i \in Positions("end", "onConfirmMessage") : ~Truthy(log[i][3])

\* C1: when the confirm hook of a send() resolves to a falsy value, no
\* transport call is made, none of the success, error and complete hooks
\* runs, none of the success, error and complete notifications fires, and
\* send() resolves with no value.
C1_DeclinedConfirmEndsSend ==
    ConfirmDeclined =>
        /\ pc = "done"
        /\ result = "void"
        /\ ~TransportCalled
        /\ \A slot \in {"onSetup", "onSuccess", "onError", "onComplete"} : ~Called(slot)
        /\ \A name \in {"ajaxSuccess", "ajaxError", "ajaxComplete", "ajaxDone",
                        "ajaxFail", "ajaxAlways"} : ~Fired(name)

C1_Witness ==
    /\ ConfirmDeclined
    /\ Opt(self.options, "confirm") # False
    /\ pc = "done"

\* C2: after cancel(), before or during the transport call, the call
\* rejects with the cancellation error, the failure path runs, send()
\* resolves with no value, and the completing hook runs exactly once.
C2_CancelledSendResolves ==
    (pc = "done" /\ error = CancelError) =>
        /\ Called("onError")
        /\ result = "void"
        /\ Cardinality(Positions("hook", "onComplete")) = 1

\* C3: with the default hooks, whenever the transport call fails, with a
\* response outside 2xx or with no response at all, send() resolves with
\* no value and never rejects.
C3_TransportFailureResolves ==
    (pc = "done" /\ error.kind \in {"response", "network"}) => result = "void"

\* what the completing hook leaves in the log
CompleteTail ==
    LET element == FormOrElement(self)
    IN  IF Impl(self, "onComplete") = "base"
        THEN << Call("onComplete", ""), End("onComplete") >>
        ELSE << Call("onComplete", "") >>
             \o (IF self.loading = "loading"
                 THEN << Ev("wn.afterRequest", "loading") >> ELSE << >>)
             \o (IF Truthy(element)
                 THEN << Ev("ajaxAlways", element), Ev("ajaxComplete", element) >>
                 ELSE << >>)
             \o << End("onComplete") >>

C5_RedirectResponseOnlyRedirects ==
    (pc \in {"completing", "done"} /\ error = NoError /\ MapHas(response, KRedirect)) =>
        /\ Cardinality(Positions("hook", "onRedirectResponse")) = 1
        /\ \A i \in Positions("hook", "onRedirectResponse") :
              log[i][3] = MapGet(response, KRedirect)
        /\ ~Called("onAssets")
        /\ ~Called("onValidationMessage")
        /\ \A name \in {"ajaxUpdate", "ajaxBeforeReplace", "ajaxUpdateComplete"} :
              ~Fired(name)
        /\ dom = page.content

ResultOnly == << <<KResult, "r">> >>

\* C6: with a valid handler and confirm false, after a successful response
\* whose body holds only the key result, send() resolves with the raw
\* response, the error hook is not called, none of the redirect, assets
\* and validation hooks is called, and the success notification fires
\* exactly once, on the bound element.
C6_ResultOnlyResolvesWithResponse ==
    (pc = "done" /\ response = ResultOnly /\ Opt(self.options, "confirm") = False) =>
        /\ result = "response"
        /\ \A slot \in {"onError", "onRedirectResponse", "onAssets",
                        "onValidationMessage"} : ~Called(slot)
        /\ (Impl(self, "onSuccess") # "base" /\ Truthy(FormOrElement(self))) =>
              /\ Cardinality(Positions("event", "ajaxSuccess")) = 1
              /\ \A i \in Positions("event", "ajaxSuccess") :
                    log[i][3] = FormOrElement(self)

MissingFirst == << <<SelB, Frag>>, <<SelA, Frag>> >>

\* C7: a key of the response whose selector matches no element is passed
\* over silently: the keys after it are injected and update-complete is
\* still dispatched.
C7_MissingTargetIsSkipped ==
    (pc \in {"completing", "done"} /\ response = MissingFirst
        /\ "#b" \notin page.present) =>
        /\ dom["#a"] = << Frag >>
        /\ Fired("ajaxUpdateComplete")
        /\ error = NoError

BadInput ==
    << <<KErrorMsg, "Bad input">>,
       <<KErrorFld, << << <<"email">>, "Invalid">> >> >> >>

SmartError ==
    [kind |-> "response", status |-> 406, statusText |-> "Not Acceptable",
     data |-> BadInput]

\* C9: after a transport failure with status 406 whose body holds
\* X_WINTER_ERROR_MESSAGE and X_WINTER_ERROR_FIELDS, the update-response
\* hook was called with that body, the validation notification fired on
\* the bound form, the first enabled control named after the first error
\* field has the focus (unless the invalid-field notification was
\* canceled), and the error-message hook was called with the message of
\* the server.
C9_SmartErrorValidates ==
    (/\ pc = "done"
     /\ error = SmartError
     /\ Impl(self, "onValidationMessage") # "base"
     /\ Truthy(self.form)) =>
        LET k == FirstMatch(page.controls, <<"email">>)
        IN  /\ \E i \in Positions("hook", "onUpdateResponse") : log[i][3] = BadInput
            /\ \E i \in Positions("event", "ajaxValidation") : log[i][3] = self.form
            /\ (k > 0 /\ page.controls[k].enabled
                  /\ "ajaxInvalidField" \notin page.prevent)
                  => focused = page.controls[k].name
            /\ \E i \in Positions("hook", "onErrorMessage") : log[i][3] = "Bad input"

\* the attribute of the element an option is derived from
Attribute(k) ==
    CASE k = "confirm"  -> "requestConfirm"
      [] k = "redirect" -> "requestRedirect"
      [] k = "loading"  -> "requestLoading"
      [] k = "flash"    -> "requestFlash"
      [] k = "browserValidate" -> "requestBrowserValidate"

BuiltIn(k) ==
    IF args.variant = "extras" THEN Opt(FlatDefaults, k) ELSE Defaults[k]

\* the value the three layers give an option: the caller, then the
\* attribute when the element has it, then the built-in default
Effective(k) ==
    IF k \in DOMAIN args.caller THEN args.caller[k]
    ELSE IF args.variant # "base" /\ args.hasElement
            /\ args.dataset[Attribute(k)] # Undef
    THEN ElementLayer(args.dataset)[k]
    ELSE BuiltIn(k)

\* C10: every option of the effective configuration holds the value of the
\* caller when the caller gave one, else the value derived from the data
\* attribute when the element has that attribute, else the built-in
\* default; flash: true of the caller gives flash true whatever the
\* element says.
C10_OptionPrecedence ==
    pc = "idle" =>
        /\ \A k \in {"confirm", "redirect", "loading", "flash", "browserValidate"} :
              Opt(self.options, k) = Effective(k)
        /\ Opt(args.caller, "flash") = True => Opt(self.options, "flash") = True

\* the content of an element after n copies of a fragment were put at
\* its end or at its start
Copies(fragment, n) == [i \in 1..n |-> fragment]

\* C8: injecting the same fragment again and again with a selector without
\* prefix leaves exactly the fragment in the target (once, twice, or more
\* often); with the @ prefix n injections leave n copies at the end of the
\* content, with the ^ prefix n copies at its start.
C8_InjectionAlgebra ==
    (pc = "injecting" /\ Len(response) = 1) =>
        LET partial  == response[1][1]
            fragment == response[1][2]
            selector == IF MapHas(self.options.update, partial)
                        THEN MapGet(self.options.update, partial) ELSE partial
            prefixed == Head(selector) \in {"^", "@"}
            element  == QuerySelector(page.present,
                                      IF prefixed THEN Tail(selector) ELSE selector)
        IN  element # Null =>
               /\ dom[element] =
                     IF Head(selector) = "@"
                     THEN page.content[element] \o Copies(fragment, Applied)
                     ELSE IF Head(selector) = "^"
                     THEN Copies(fragment, Applied) \o page.content[element]
                     ELSE IF Applied = 0 THEN page.content[element]
                     ELSE << fragment >>
               /\ \A e \in Elems \ {element} : dom[e] = page.content[e]

C8_Witness ==
    /\ pc = "injecting"
    /\ Applied = 2
    /\ response = << <<SelA, Frag>> >>
    /\ page.content["#a"] = << Old >>
    /\ dom["#a"] = << Frag >>

\* the before-update hook of the current send() returned false
Vetoed ==
    \E i \in Positions("end", "onBeforeUpdate") : log[i][3] = False

\* a listener called preventDefault() on the before-update notification
BeforeUpdateCanceled ==
    Fired("ajaxBeforeUpdate") /\ "ajaxBeforeUpdate" \in page.prevent

\* what both ways of halting the update have to leave behind
UpdateSkipped ==
    /\ ~Called("onFlashMessage")
    /\ ~Called("onUpdateResponse")
    /\ dom = page.content
    /\ ~Fired("ajaxSuccess")
    /\ Cardinality(Positions("hook", "onComplete")) = 1
    /\ result = "response"

BeforeRequestCanceled ==
    /\ "wn.beforeRequest" \in page.prevent
    /\ \E i \in Positions("event", "wn.beforeRequest") : log[i][3] = self.element

\* C12: when a listener cancels the before-request notification on the
\* triggering element, send() ends as after a declined confirmation: no
\* setup hook, no transport call, no success, error or complete
\* notification, and it resolves with no value.
C12_CanceledBeforeRequestAborts ==
    BeforeRequestCanceled =>
        /\ pc = "done"
        /\ result = "void"
        /\ ~Called("onSetup")
        /\ ~TransportCalled
        /\ \A name \in {"ajaxSuccess", "ajaxError", "ajaxComplete"} : ~Fired(name)

OverridableSlots == {"onSuccess", "onError", "onUpdateResponse"}

\* what the default implementation of a hook does besides running
DefaultEvents(slot) ==
    CASE slot = "onSuccess" ->
            {"ajaxDone", "ajaxBeforeUpdate", "ajaxUpdate", "ajaxBeforeReplace",
             "ajaxUpdateComplete", "ajaxSuccess"}
      [] slot = "onError" -> {"ajaxFail", "ajaxError", "ajaxErrorMessage"}
      [] slot = "onUpdateResponse" ->
            {"ajaxUpdate", "ajaxBeforeReplace", "ajaxUpdateComplete"}

DefaultCalls(slot) ==
    CASE slot = "onSuccess" -> {"onBeforeUpdate", "onFlashMessage", "onUpdateResponse"}
      [] slot = "onError" -> {"onErrorMessage"}
      [] slot = "onUpdateResponse" ->
            {"onRedirectResponse", "onAssets", "onValidationMessage"}

\* C13: a success hook (likewise an error hook, an update-response hook)
\* supplied by the caller replaces the default one: when it is called only
\* the hook of the caller runs, none of the notifications and hooks of the
\* default implementation fires and, for the success and update-response
\* hooks, no partial is injected into the DOM.
C13_CallerHookReplacesDefault ==
    /\ [](\A slot \in OverridableSlots :
            (self.ok /\ Impl(self, slot) = "user" /\ Called(slot)) =>
                /\ \A i \in Positions("hook", slot) :
                      /\ i < Len(log)
                      /\ log[i + 1][1] = "end"
                      /\ log[i + 1][2] = slot
                /\ \A name \in DefaultEvents(slot) : ~Fired(name)
                /\ \A other \in DefaultCalls(slot) : ~Called(other))
    /\ [][\A slot \in OverridableSlots :
            (/\ self.ok /\ Impl(self, slot) = "user"
             /\ Len(log') > Len(log)
             /\ \E i \in (Len(log) + 1)..Len(log') :
                   log'[i][1] = "hook" /\ log'[i][2] = slot)
                => dom' = dom]_vars

C13_Witness ==
    /\ pc = "done"
    /\ Impl(self, "onSuccess") = "user"
    /\ Called("onSuccess")
    /\ MapHas(response, SelA)
    /\ result = "response"

\* C14: with browserValidate enabled and a bound form, send() fails with
\* ValidationFailedError, without a transport call, exactly when the
\* browser reports the form invalid; when the form is valid send() goes on
\* to the transport call.
C14_ValidationFailsIffInvalid ==
    \A i \in Positions("end", "checkValidity") :
        /\ (result = "rejected:ValidationFailedError") <=> (log[i][3] = False)
        /\ log[i][3] = False => ~TransportCalled
        /\ (log[i][3] = True /\ pc = "done" /\ ~ConfirmDeclined) => TransportCalled

\* an identifier that begins with on
IsOnIdentifier(w) ==
    /\ Len(w) >= 2
    /\ w[1] = "o" /\ w[2] = "n"
    /\ \A j \in 1..Len(w) : IsWordChar(w[j])

\* an optional scope:: prefix followed by an identifier that begins with on
WellFormedHandler(w) ==
    \/ IsOnIdentifier(w)
    \/ \E k \in 1..(Len(w) - 2) :
          /\ \A j \in 1..k : IsWordChar(w[j])
          /\ w[k + 1] = ":" /\ w[k + 2] = ":"
          /\ IsOnIdentifier(SubSeq(w, k + 3, Len(w)))

\* the handler name the constructor validates: the argument, or the
\* data-request attribute when there is no argument and an element
GivenHandler ==
    IF args.handler = Undef /\ args.variant # "base" /\ args.hasElement
    THEN args.dataset.request ELSE args.handler

\* C15: construction fails exactly when the handler name is absent or is
\* not an optional scope:: prefix followed by an identifier beginning with
\* on; every name of that form is accepted, every other name is rejected.
C15_HandlerNameValidated ==
    (args.variant = "base" \/ (args.variant # "none" /\ args.hasElement)) =>
        ((pc = "failed") <=>
            ~(GivenHandler # Undef /\ WellFormedHandler(Chars(GivenHandler))))

\* the transport call at position i of the log carries the header
Carries(i, name, value) ==
    \E j \in 1..Len(log[i][3].headers) :
        /\ log[i][3].headers[j][1] = name
        /\ log[i][3].headers[j][2] = value

C17_ConfigurationIsPrivate ==
    /\ \A i \in Holders, f \in ConfigParts :
          instances[i].variant # "none" => heap[instances[i].parts[f]] \subseteq {i}
    /\ \A f \in ConfigParts : heap[<<"defaults", f>>] = {}

\* C18: the instance owns one cancellation handle, created at construction,
\* and over any sequence of send() and cancel() calls that handle is
\* attached to at most one transport call.
C18_TokenUsedOnce == requests <= 1

\* the constructor was called with a handler name and no triggering element
HandlerOnly == args.variant # "none" /\ ~args.hasElement /\ args.handler = "onSave"

\* C19: an instance can be constructed with a handler name and no
\* triggering element, and send() on it runs through the transport call
\* (unless the confirmation is declined) without failing on the absent
\* element, form or loading indicator.
C19_HandlerOnlyInstance ==
    /\ HandlerOnly => pc # "failed"
    /\ (self.ok /\ self.element = Null /\ pc = "done")
           => (TransportCalled \/ ConfirmDeclined)

\* the notifications of the steps that follow the confirmation
AfterConfirmEvents == {"ajaxSetup", "wn.beforeRequest", "ajaxBeforeSend"}

\* C20: the confirming step comes first: the confirm hook is invoked and
\* has resolved before any setup, before-request or before-send
\* notification is dispatched, and a declined confirmation leaves a run in
\* which no lifecycle notification (other than the confirm notification of
\* the hook itself) has fired.
C20_ConfirmComesFirst ==
    /\ \A j \in Positions("end", "onConfirmMessage") :
          \A i \in 1..Len(log) :
             (log[i][1] = "event" /\ log[i][2] \in AfterConfirmEvents) => j < i
    /\ ConfirmDeclined =>
          \A i \in 1..Len(log) :
             log[i][1] = "event" => log[i][2] = "ajaxConfirmMessage"

\* the place of a log entry among the steps of the default success path,
\* in the order of the claim; 0 for the entries that are none of them
SuccessStep(e) ==
    CASE e[1] = "event" /\ e[2] = "ajaxDone"          -> 1
      [] e[1] = "hook"  /\ e[2] = "onBeforeUpdate"    -> 2
      [] e[1] = "event" /\ e[2] = "ajaxBeforeUpdate"  -> 3
      [] e[1] \in {"hook", "end"} /\ e[2] = "onFlashMessage" -> 4
      [] e[1] = "hook"  /\ e[2] = "onUpdateResponse"  -> 5
      [] e[1] = "end"   /\ e[2] = "onUpdateResponse"  -> 6
      [] e[1] = "event" /\ e[2] = "ajaxSuccess"       -> 7
      [] e[1] = "event" /\ e[2] = "ajaxAlways"        -> 8
      [] e[1] = "event" /\ e[2] = "ajaxComplete"      -> 9
      [] OTHER -> 0

ErrorCanceled == Fired("ajaxError") /\ "ajaxError" \in page.prevent

\* the message the default error hook hands on: the message of the server
\* for a 406 answer with a structured body, else the status text
ExpectedErrorMessage ==
    IF HasResponse(error) /\ error.status = 406 /\ error.data # NoData
    THEN MapGet(error.data, KErrorMsg) ELSE error.statusText

\* C22: on the default failure path the error notification is dispatched
\* on the bound form or element, and the error-message hook is invoked
\* (with the message of the server for a 406 structured body, with the
\* status text otherwise) exactly when the notification was not canceled.
C22_ErrorMessageUnlessCanceled ==
    (/\ self.ok
     /\ Impl(self, "onError") \in {"request", "extras"}
     /\ Positions("end", "onError") # {}) =>
        /\ Truthy(FormOrElement(self)) =>
              \E i \in Positions("event", "ajaxError") : log[i][3] = FormOrElement(self)
        /\ Called("onErrorMessage") <=> ~ErrorCanceled
        /\ \A i \in Positions("hook", "onErrorMessage") :
              log[i][3] = ExpectedErrorMessage

\* C23: the default error-message hook dispatches the error-message
\* notification on window and then shows the native dialog with the
\* message exactly when the notification was not canceled and there is a
\* message; canceling the notification suppresses the dialog.
C23_ErrorDialogUnlessCanceled ==
    (self.ok /\ Impl(self, "onErrorMessage") \in {"request", "extras"}) =>
        \A i \in Positions("hook", "onErrorMessage") :
            /\ \E j \in Positions("event", "ajaxErrorMessage") :
                  j > i /\ log[j][3] = "window"
            /\ (\E j \in Positions("native", "alert") : j > i /\ log[j][3] = log[i][3])
                  <=> ("ajaxErrorMessage" \notin page.prevent /\ Truthy(log[i][3]))

IsFlashCall(e) == e[1] = "hook" /\ e[2] = "onFlashMessage"

\* the flash messages the default success hook has to hand on
FlashToShow ==
    IF Truthy(Opt(self.options, "flash")) /\ MapHas(response, KFlash)
    THEN MapGet(response, KFlash) ELSE << >>

\* the calls of the flash hook are those expected, in their order
FlashCallsAre(calls, expected) ==
    /\ Len(calls) = Len(expected)
    /\ \A i \in 1..Len(calls) : calls[i][3] = <<expected[i][2], expected[i][1]>>

\* C24: on the default success path the flash-message hook is invoked
\* exactly once for every (message, severity) entry of
\* X_WINTER_FLASH_MESSAGES, in the order of the payload and before the
\* update-response hook, when the flash option is enabled; it is never
\* invoked when flash is disabled or the payload has no flash messages.
C24_FlashOncePerEntry ==
    (/\ self.ok
     /\ Impl(self, "onSuccess") \in {"base", "request", "extras"}
     /\ Positions("end", "onSuccess") # {}
     /\ ~Vetoed) =>
        /\ FlashCallsAre(SelectSeq(log, IsFlashCall), FlashToShow)
        /\ \A i \in Positions("hook", "onFlashMessage"),
              j \in Positions("hook", "onUpdateResponse") : i < j

\* two flash messages were handed on and the page was updated after them
C24_Witness ==
    /\ Positions("end", "onSuccess") # {}
    /\ Cardinality(Positions("hook", "onFlashMessage")) = 2
    /\ Called("onUpdateResponse")

\* the data the update-response hook of the current run was called with
UpdateData == IF HasResponse(error) THEN error.data ELSE response

\* the notifications of partial injection
InjectionEvents == {"ajaxBeforeReplace", "ajaxUpdate", "ajaxUpdateComplete", "resize"}

InjectionPositions ==
    {i \in 1..Len(log) : log[i][1] = "event" /\ log[i][2] \in InjectionEvents}

\* C25: for a response without a redirect the default update-response step
\* runs the assets hook (only when there is an asset manifest) to its end,
\* then partial injection to its end, then the validation-message hook
\* (only when there are validation-error fields): validation never runs
\* before partial injection.
C25_UpdateResponseOrder ==
    (/\ self.ok
     /\ Impl(self, "onUpdateResponse") \in {"base", "request", "extras"}
     /\ Positions("end", "onUpdateResponse") # {}
     /\ ~Truthy(MapGet(UpdateData, KRedirect))) =>
        /\ Called("onAssets") <=> Truthy(MapGet(UpdateData, KAssets))
        /\ \A a \in Positions("end", "onAssets"), u \in InjectionPositions : a < u
        /\ Fired("ajaxUpdateComplete")
        /\ Called("onValidationMessage") <=> MapHas(UpdateData, KErrorFld)
        /\ \A v \in Positions("hook", "onValidationMessage"),
              u \in InjectionPositions : u < v

\* C26: within one run no two hooks overlap: a hook is awaited to its end
\* before the next one starts, and the complete hook never starts while an
\* error-message, validation or redirect hook of the run is still pending.
C26_HooksDoNotOverlap ==
    \A i \in 1..Len(log) :
        log[i][1] = "pending" =>
            \A j \in (i + 1)..Len(log) :
                log[j][1] = "hook" =>
                    \E k \in (i + 1)..(j - 1) : log[k] = End(log[i][2])

\* the error fields of the current run, and those of them that resolve to
\* an enabled control of the form
ErrorFields == MapGet(UpdateData, KErrorFld)

Resolves(i) ==
    /\ FirstMatch(page.controls, BracketName(ErrorFields[i][1])) > 0
    /\ page.controls[FirstMatch(page.controls, BracketName(ErrorFields[i][1]))].enabled

ControlOf(i) ==
    page.controls[FirstMatch(page.controls, BracketName(ErrorFields[i][1]))].name

\* C27: in the default validation-message hook the control of the first
\* error field that resolves to an enabled form control is focused exactly
\* when the invalid-field notification dispatched for it was not canceled;
\* the controls of later error fields are never focused.
C27_FirstInvalidFieldFocused ==
    (/\ self.ok
     /\ Impl(self, "onValidationMessage") \in {"request", "extras"}
     /\ MapHas(UpdateData, KErrorFld)
     /\ Positions("end", "onValidationMessage") # {}) =>
        \A i \in 1..Len(ErrorFields) :
            Resolves(i) =>
                IF \A j \in 1..(i - 1) : ~Resolves(j)
                THEN (focused = ControlOf(i)) <=> ("ajaxInvalidField" \notin page.prevent)
                ELSE focused # ControlOf(i) \/ \E j \in 1..(i - 1) : Resolves(j) /\ ControlOf(j) = ControlOf(i)


\* the selector a key of the response data stands for
TargetSelector(partial) ==
    IF MapHas(self.options.update, partial)
    THEN MapGet(self.options.update, partial) ELSE partial

\* the element a selector names, its prefix left aside
TargetElement(selector) ==
    QuerySelector(page.present,
                  IF Head(selector) \in {"^", "@"} THEN Tail(selector) ELSE selector)

\* what a selector makes of the content of its element
Placed(selector, fragment, content) ==
    IF Head(selector) = "^" THEN << fragment >> \o content
    ELSE IF Head(selector) = "@" THEN content \o << fragment >>
    ELSE << fragment >>

\* the content of every element after the keys from the i-th on were
\* processed n more times over
RECURSIVE Processed(_, _, _)
Processed(content, i, n) ==
    IF n = 0 THEN content
    ELSE IF i > Len(response) THEN Processed(content, 1, n - 1)
    ELSE IF TargetElement(TargetSelector(response[i][1])) = Null
         THEN Processed(content, i + 1, n)
    ELSE Processed([content EXCEPT ![TargetElement(TargetSelector(response[i][1]))] =
                        Placed(TargetSelector(response[i][1]), response[i][2], @)],
                   i + 1, n)

Matching ==
    {i \in 1..Len(response) : TargetElement(TargetSelector(response[i][1])) # Null}

\* C28: partial injection processes every key of the response data: the
\* selector of a key is the one the partial-selector map holds for it, and
\* the key itself when the map does not hold it; a selector starting with
\* ^ puts the fragment at the start of the element the rest matches, one
\* starting with @ puts it at the end, any other selector makes the
\* fragment the whole content of the matched element; every processed key
\* dispatches one update notification.
C28_EveryKeyInjected ==
    pc = "injecting" =>
        /\ dom = Processed(page.content, 1, Applied)
        /\ Cardinality(Positions("event", "ajaxUpdate")) =
              Applied * Cardinality(Matching)

C28_Witness ==
    /\ pc = "injecting"
    /\ Applied = 1
    /\ Len(response) = 3
    /\ page.content["#a"] = << Old >>
    /\ dom["#a"] = << Frag, Frag >>
    /\ Cardinality(Positions("event", "ajaxUpdate")) = 3

\* the notifications of one kind dispatched on one element
On(name, element) == {i \in Positions("event", name) : log[i][3] = element}

\* the keys of the update data whose selector has no prefix and matches
\* the element
PlainKeys(element) ==
    {i \in 1..Len(UpdateData) :
        /\ Head(TargetSelector(UpdateData[i][1])) \notin {"^", "@"}
        /\ TargetElement(TargetSelector(UpdateData[i][1])) = element}

\* C29: a selector without prefix dispatches the before-replace
\* notification on the matched element, and the content of the element is
\* replaced only when no listener canceled that notification; selectors
\* with the ^ or the @ prefix dispatch no before-replace notification.
C29_ReplaceUnlessCanceled ==
    pc = "injecting" =>
        \A e \in Elems :
            /\ Cardinality(On("ajaxBeforeReplace", e)) =
                  Applied * Cardinality(PlainKeys(e))
            /\ (/\ On("ajaxBeforeReplace", e) # {}
                /\ Cardinality(On("ajaxUpdate", e)) = Cardinality(On("ajaxBeforeReplace", e))
                /\ "ajaxBeforeReplace" \in page.prevent) =>
                   dom[e] = page.content[e]

\* C30: in partial injection the update notification of a key is
\* dispatched on the affected element after the content of that element
\* was changed for the key; when all keys are processed one update-complete
\* notification is dispatched on window, and a resize notification on
\* window follows it.
C30_UpdateAfterChange ==
    /\ \A i \in Positions("event", "ajaxUpdate") :
          i > 1 /\ log[i - 1] = Changed(log[i][3])
    /\ \A i \in Positions("event", "ajaxUpdateComplete") :
          /\ log[i][3] = "window"
          /\ i < Len(log) /\ log[i + 1] = Ev("resize", "window")
    /\ pc = "injecting" =>
          Cardinality(Positions("dom", "change")) =
              Cardinality(Positions("event", "ajaxUpdateComplete")) * Cardinality(Matching)

\* the payload of the transport call at position i of the log
PayloadAt(i) == log[i][3].data.entries

\* the instance is bound to an element
ElementBound == self.ok /\ self.variant \in {"request", "extras"} /\ Truthy(self.element)

\* the sources of the payload that rank above the data option: the data
\* argument of the call, the values of the bound form, the
\* data-request-data attributes around the element and its own value
HigherSources ==
    MapMerge(MapMerge(MapMerge(extra,
                               IF Truthy(self.form) THEN FormEntries(page.controls)
                               ELSE << >>),
                      GetRequestDataAttrs(page, self.element)),
             IF HasInput(page, self.element)
             THEN << <<page.input.name, page.input.value>> >> ELSE << >>)

\* C31: in every send on an element-bound instance the setup ends with a
\* transport call whose payload holds every key of options.data, with the
\* configured value unless a source of higher precedence sets the same
\* key, whether options.data has no key, one key or several.
C31_ConfigDataInPayload ==
    (ElementBound /\ Positions("end", "onSetup") # {}) =>
        /\ TransportCalled
        /\ \A i \in Positions("transport", "request") :
              \A k \in 1..Len(self.options.data) :
                 /\ MapHas(PayloadAt(i), self.options.data[k][1])
                 /\ \/ MapGet(PayloadAt(i), self.options.data[k][1]) = self.options.data[k][2]
                    \/ MapHas(HigherSources, self.options.data[k][1])

\* everything the payload of the current call may be built from
PayloadSources == MapMerge(self.options.data, HigherSources)

\* C32: the payload of every send(data) holds every key of data with its
\* value, on the base instance and on the element-bound instance alike,
\* and holds no key that only the data of an earlier call had.
C32_ExtraDataInPayload ==
    (self.ok /\ Positions("end", "onSetup") # {}) =>
        /\ TransportCalled
        /\ \A i \in Positions("transport", "request") :
              /\ \A k \in 1..Len(extra) :
                    MapGet(PayloadAt(i), extra[k][1]) = extra[k][2]
              /\ \A k \in 1..Len(PayloadAt(i)) :
                    MapHas(PayloadSources, PayloadAt(i)[k][1])

\* the update map of the element layer of the instance under construction
ElementUpdate ==
    IF args.variant # "base" /\ args.hasElement
    THEN ParamToObj(args.dataset.requestUpdate) ELSE << >>

\* C33: nested maps merge key-wise across the layers: after construction
\* with a hook set that holds only some hooks, every hook the caller did
\* not supply is still there (and is the caller's where the caller
\* supplied it); with an update map that holds only some keys, the keys of
\* the element layer the caller did not supply are still there.
C33_NestedMapsMerge ==
    pc = "idle" =>
        /\ \A slot \in HookSlots :
              /\ Impl(self, slot) # "absent"
              /\ ("handlers" \in DOMAIN args.caller /\ args.caller.handlers[slot] # "absent")
                    => Impl(self, slot) = args.caller.handlers[slot]
        /\ \A k \in 1..Len(ElementUpdate) :
              MapHas(self.options.update, ElementUpdate[k][1])
        /\ "update" \in DOMAIN args.caller =>
              \A k \in 1..Len(args.caller.update) :
                 MapGet(self.options.update, args.caller.update[k][1]) =
                     args.caller.update[k][2]

\* the instance was built on an element that lacks the attribute of the
\* option, by a caller that does not give the option
NotGiven(k) ==
    /\ pc = "idle"
    /\ args.variant \in {"request", "extras"} /\ args.hasElement
    /\ args.dataset[Attribute(k)] = Undef
    /\ k \notin DOMAIN args.caller

\* C34: when the element has no confirmation attribute and the caller
\* gives no confirm option, the effective confirm option is the built-in
\* default false, and send() goes on to the setup without calling the
\* confirm hook; more generally an attribute the element lacks never
\* replaces a built-in default.
C34_AbsentAttributeKeepsDefault ==
    /\ [](\A k \in {"confirm", "redirect", "loading", "flash"} :
             NotGiven(k) => Opt(self.options, k) = BuiltIn(k))
    /\ [][(NotGiven("confirm") /\ sends' = sends + 1) => pc' # "confirming"]_vars

\* the errors a failed transport call rejects with
TransportFailures == {"response", "network", "cancel"}

\* C35: in one run of send() at most one of the success hook and the
\* error hook is called, and the error hook is called only for a failure
\* of the transport call itself, never for an exception of the success
\* hook or of the application of the response.
C35_SuccessOrErrorHook ==
    Called("onError") =>
        /\ ~Called("onSuccess")
        /\ error.kind \in TransportFailures

\* no value
Absent == "absent"

\* the value of the last put for (k, key) among the first n calls that was
\* not removed since
RECURSIVE LastPut(_, _, _)
LastPut(n, k, key) ==
    IF n = 0 THEN Absent
    ELSE IF journal[n].k = k /\ journal[n].key = key /\ journal[n].op = "put"
         THEN journal[n].v
    ELSE IF journal[n].k = k /\ journal[n].key = key /\ journal[n].op = "remove"
         THEN Absent
    ELSE LastPut(n - 1, k, key)

\* what the table holds for (k, key)
Stored(k, key) ==
    IF StorageHas(storage, k) /\ MapHas(storage[k], key)
    THEN MapGet(storage[k], key) ELSE Absent

\* C38: after any calls of put and remove the table holds for every pair
\* (node, key) the value of the last put that was not removed since, and
\* nothing for the other pairs, so a call on one pair changes no other
\* pair; get of a pair that is there returns that value, has answers true
\* exactly for the pairs that are there, and remove answers true exactly
\* when the pair was there.
C38_StoreKeepsLastPut ==
    /\ \A k \in StoreNodes, key \in StoreKeys :
          Stored(k, key) = LastPut(Len(journal), k, key)
    /\ \A n \in 1..Len(journal) :
          /\ (journal[n].op = "get" /\ LastPut(n - 1, journal[n].k, journal[n].key) # Absent)
                => journal[n].ret = LastPut(n - 1, journal[n].k, journal[n].key)
          /\ journal[n].op \in {"has", "remove"}
                => (journal[n].ret = True
                      <=> LastPut(n - 1, journal[n].k, journal[n].key) # Absent)

C38_Witness ==
    /\ Len(journal) = 3
    /\ journal[1].op = "put" /\ journal[2].op = "put" /\ journal[3].op = "remove"
    /\ journal[1].k = journal[2].k /\ journal[2].k = journal[3].k
    /\ journal[1].key # journal[2].key /\ journal[2].key = journal[3].key
    /\ journal[3].ret = True
    /\ Stored(journal[1].k, journal[1].key) = journal[1].v

\* nothing is stored for the node k after the first n calls
NoEntries(n, k) == \A key \in StoreKeys : LastPut(n, k, key) = Absent

\* C39: a lookup for a node that has no entries, because nothing was ever
\* put for it or because its last entry was removed, returns the absent
\* value and does not fail.
C39_LookupWithoutEntries ==
    \A n \in 1..Len(journal) :
        (journal[n].op = "get" /\ NoEntries(n - 1, journal[n].k))
            => journal[n].ret = Undef

\* the instances the timers created, oldest first
RECURSIVE ByTimer(_)
ByTimer(made) ==
    IF made = << >> THEN << >>
    ELSE IF Head(made).by = "timer" THEN <<Head(made)>> \o ByTimer(Tail(made))
    ELSE ByTimer(Tail(made))

\* the instance the timers created last for the element before the i-th
RECURSIVE LastFor(_, _, _)
LastFor(made, i, element) ==
    IF i = 1 THEN Undef
    ELSE IF made[i - 1].element = element THEN made[i - 1].id
    ELSE LastFor(made, i - 1, element)

\* C36: every timer that ran out for an input created one instance for
\* that input and sent it, after it canceled the instance created last
\* for the same input, if any, and no instance of another input.
C36_TimerCancelsOwnLast ==
    /\ Len(ByTimer(tracker.made)) = Len(tracker.fired)
    /\ \A i \in 1..Len(ByTimer(tracker.made)) :
          /\ ByTimer(tracker.made)[i].element = tracker.fired[i]
          /\ ByTimer(tracker.made)[i].sent
          /\ ByTimer(tracker.made)[i].canceled
                = LastFor(ByTimer(tracker.made), i, tracker.fired[i])

\* a request was sent for the input
SentFor(e) ==
    \E i \in 1..Len(tracker.made) :
        tracker.made[i].element = e /\ tracker.made[i].sent

\* C37: once the value of a tracked input changed, a request is eventually
\* sent for that input, whatever keys are released on the other input.
C37_ChangeLeadsToRequest ==
    \A e \in Inputs : (e \in tracker.changed) ~> SentFor(e)
====
